---------------------------- MODULE Spec2Model ----------------------------
(***************************************************************************)
(* Multikernel OS simulation: CoreKernel (per-core kernel with inbox,      *)
(* process table and worker thread) and MultikernelSystem (coordinator).   *)
(*                                                                         *)
(* Threads: driver threads 1..NumDrivers call the public API; the worker   *)
(* of core c has thread id -(c+1).  A mutex variable holds the id of the   *)
(* owning thread, 0 when free.                                             *)
(***************************************************************************)
EXTENDS Integers, Sequences, FiniteSets, TLC

\* ------------------------------------------------------------------ sizes
\* The source sets NUM_CORES = 8 and MESSAGE_QUEUE_SIZE = 100
\* (multikernel.h); the model runs the same code on a smaller machine.
NUM_CORES == 2
MESSAGE_QUEUE_SIZE == 2
\* Driver threads calling the coordinator's API.
NumDrivers == 2
\* Cap on the static pid counter (pids 0 .. MaxPid-1 are handed out).
MaxPid == 2
\* Cap on the number of messages accepted into inboxes over a run.
MaxMsgs == 3
\* Cap on the quanta a PCB is charged: in the pass that would take it past
\* the cap, only the draws that terminate it are followed.
MaxQuanta == 1
\* Processes the SMP baseline creates and ticks its core threads make.
MaxSmpPid == 4
MaxTicks == 2

QUANTUM_MS == 50
MAX_MESSAGE_SIZE == 512
MAX_PROCESSES == 64
DEFAULT_PRIORITY == 5

Cores == 0 .. NUM_CORES - 1
Drivers == 1 .. NumDrivers
\* Priorities the drivers pass to create_process.
Priorities == {3}
\* The scheduling priorities of a PCB.
PcbPriorities == 0 .. 10
\* The PCBs the scheduler passes of a run execute, all cores together;
\* where the passes are not limited, the count up to which the counters
\* are told apart.
MaxExecuted == 1
\* The same two limits where the scheduler passes themselves are examined.
MaxSchedQuanta == 3
MaxSchedExecuted == 6
\* The cores of the messaging simulation (NUM_CORES of that program).
NumSimCores == 3
SimCores == 0 .. NumSimCores - 1
\* The draws of std::uniform_int_distribution<>(1, 100).
Draws == 1 .. 100

WorkerId(c) == -(c + 1)

\* ---------------------------------------------------------- payload text
\* Message::data is a character buffer; a text is a sequence of characters.
Prefix == <<"p", "r", "i", "o", "r", "i", "t", "y", "=">>

DigitChar(d) ==
    CASE d = 0 -> "0" [] d = 1 -> "1" [] d = 2 -> "2" [] d = 3 -> "3"
      [] d = 4 -> "4" [] d = 5 -> "5" [] d = 6 -> "6" [] d = 7 -> "7"
      [] d = 8 -> "8" [] d = 9 -> "9"

DigitVal(ch) ==
    CASE ch = "0" -> 0 [] ch = "1" -> 1 [] ch = "2" -> 2 [] ch = "3" -> 3
      [] ch = "4" -> 4 [] ch = "5" -> 5 [] ch = "6" -> 6 [] ch = "7" -> 7
      [] ch = "8" -> 8 [] ch = "9" -> 9 [] OTHER -> -1

RECURSIVE Dec(_)
Dec(n) == IF n < 10 THEN <<DigitChar(n)>>
          ELSE Dec(n \div 10) \o <<DigitChar(n % 10)>>

\* printf's %d.
FormatInt(n) == IF n < 0 THEN <<"-">> \o Dec(-n) ELSE Dec(n)

\* snprintf(msg.data, MAX_MESSAGE_SIZE, "priority=%d", priority): at most
\* MAX_MESSAGE_SIZE - 1 characters are kept.
snprintf_priority(priority) ==
    LET s == Prefix \o FormatInt(priority)
    IN  IF Len(s) > MAX_MESSAGE_SIZE - 1
        THEN SubSeq(s, 1, MAX_MESSAGE_SIZE - 1) ELSE s

\* ReadDigits stopping after the first digit.
ReadFirstDigit(s, acc) ==
    IF s = <<>> \/ DigitVal(Head(s)) < 0 THEN acc ELSE DigitVal(Head(s))

\* The value of the longest run of digits at the front of s, read left to
\* right; acc is the value read so far.
RECURSIVE ReadDigits(_, _)
ReadDigits(s, acc) ==
    IF s = <<>> \/ DigitVal(Head(s)) < 0 THEN acc
    ELSE ReadDigits(Tail(s), 10 * acc + DigitVal(Head(s)))

\* sscanf(msg.data, "priority=%d", &priority) with priority preset to dflt:
\* the literal must match, then an optional sign and at least one digit;
\* on any mismatch priority keeps its preset value.
sscanf_priority(data, dflt) ==
    IF Len(data) <= Len(Prefix) \/ SubSeq(data, 1, Len(Prefix)) # Prefix
    THEN dflt
    ELSE LET rest == SubSeq(data, Len(Prefix) + 1, Len(data))
             neg  == Head(rest) = "-"
             body == IF Head(rest) \in {"-", "+"} THEN Tail(rest) ELSE rest
         IN  IF body = <<>> \/ DigitVal(Head(body)) < 0 THEN dflt
             ELSE IF neg THEN -ReadDigits(body, 0) ELSE ReadDigits(body, 0)

\* ------------------------------------------------------------- data types
\* Message(): source_core(-1), dest_core(-1), type(MSG_HEARTBEAT),
\* process_id(-1), data zeroed.  seq is the position of the message in the
\* system-wide order of accepted pushes (0: not pushed); the code has no
\* such field, it is kept to state ordering properties.
Message ==
    [source_core |-> -1, dest_core |-> -1, type |-> "MSG_HEARTBEAT",
     process_id |-> -1, data |-> <<>>, seq |-> 0]

\* ProcessControlBlock(id, core, prio): state READY, cpu_time 0.
ProcessControlBlock(id, core, prio) ==
    [pid |-> id, core_id |-> core, state |-> "PROCESS_READY",
     priority |-> prio, cpu_time |-> 0]

\* The locals of a driver thread inside an API call.  seen is the sequence
\* of loads get_least_loaded_core has read in its scan so far; the code
\* keeps only their minimum, seen is kept to state what the scan returns.
\* sent_before is core 0's messages_sent when send_heartbeat_messages was
\* entered; the code keeps no such value, it is kept to state what the call
\* adds.
NoLocals ==
    [i |-> 0, total |-> 0, min_load |-> 0, best_core |-> 0,
     pid |-> -1, source |-> -1, target |-> -1, priority |-> 0,
     sender |-> -1, msg |-> Message, cont |-> "none", seen |-> <<>>,
     sent_before |-> 0, arg |-> Message]

\* What a call returned: op names the call, args are the arguments it was
\* given, val is the int returned, 1/0 for true/false, 0 for void.  For the
\* void send_message val is 1 when the message was enqueued and 0 when it
\* was dropped with an error line on std::cerr.
NoReturn == [op |-> "none", args |-> <<>>, val |-> 0]

VARIABLES
    system_running,      \* MultikernelSystem::system_running
    load_balancer_mutex, \* owner of MultikernelSystem::load_balancer_mutex
    global_pid,          \* the static counter in CoreKernel::create_process
    running,             \* [core] CoreKernel::running
    all_cores,           \* [core] TRUE when CoreKernel::all_cores is set
    worker,              \* [core] worker_thread: none | running | exited | joined
    wpc,                 \* [core] where the worker is in worker_loop
    cur,                 \* [core] the message the worker holds
    inbox,               \* [core] CoreKernel::inbox, front first
    inbox_mutex,         \* [core] owner of inbox_mutex
    process_table,       \* [core] CoreKernel::process_table
    process_mutex,       \* [core] owner of process_mutex
    messages_sent,       \* [core] stats.messages_sent
    messages_received,   \* [core] stats.messages_received
    avg_message_latency_us, \* [core] stats.avg_message_latency_us
    processes_executed,  \* [core] stats.processes_executed
    context_switches,    \* [core] stats.context_switches
    current_load,        \* [core] stats.current_load
    pc,                  \* [driver] where the driver is
    loc,                 \* [driver] the locals of its call
    ret,                 \* [driver] the value its last call returned
    aborted,             \* std::terminate() has been called
    seq,                 \* number of pushes accepted so far
    last_dispatched      \* [core] seq of the last message dispatched

\* The SMP baseline, an object of its own.
VARIABLES
    global_process_table, \* SMPSystem::global_process_table
    global_lock,          \* owner of SMPSystem::global_lock
    next_pid,             \* SMPSystem::next_pid
    smp_running,          \* SMPSystem::running
    lock_contentions,     \* SMPSystem::lock_contentions
    cache_invalidations,  \* SMPSystem::cache_invalidations
    total_operations,     \* SMPSystem::total_operations
    core_threads,         \* [core] where the core's thread is in core_worker
    smp_pc,               \* [driver] where the driver is in an SMPSystem call
    smp_loc,              \* [driver] the locals of its call
    smp_ret,              \* [driver] the pid its last create_process returned
    acquisitions          \* number of times global_lock has been acquired

\* The messaging simulation, a program of its own.
VARIABLES
    build,                \* which build of the simulation runs: C or C++
    main_pc,              \* where main is
    main_i,               \* the i of main's loops
    sim_pc,               \* [core] where the core's thread is
    sim_inbox,            \* [core] the core's inbox, front first
    sim_running,          \* [core] running
    current_leader,       \* [core] current_leader
    sim_stats,            \* [core] stats: messages_sent, messages_received
    sim_i,                \* [core] the i of the loop the thread is in
    cores_arrived         \* cores_arrived of the coordinator

vars ==
    <<system_running, load_balancer_mutex, global_pid, running, all_cores,
      worker, wpc, cur, inbox, inbox_mutex, process_table, process_mutex,
      messages_sent, messages_received, avg_message_latency_us,
      processes_executed, context_switches,
      current_load, pc, loc, ret, aborted,
      seq, last_dispatched,
      global_process_table, global_lock, next_pid, smp_running,
      lock_contentions, cache_invalidations, total_operations, core_threads,
      smp_pc, smp_loc, smp_ret, acquisitions,
      build, main_pc, main_i, sim_pc, sim_inbox, sim_running, current_leader,
      sim_stats, sim_i, cores_arrived>>

\* The variables of the multikernel system and those of the SMP baseline.
mkVars ==
    <<system_running, load_balancer_mutex, global_pid, running, all_cores,
      worker, wpc, cur, inbox, inbox_mutex, process_table, process_mutex,
      messages_sent, messages_received, avg_message_latency_us,
      processes_executed, context_switches,
      current_load, pc, loc, ret, aborted,
      seq, last_dispatched>>
smpVars ==
    <<global_process_table, global_lock, next_pid, smp_running,
      lock_contentions, cache_invalidations, total_operations, core_threads,
      smp_pc, smp_loc, smp_ret, acquisitions>>

simVars ==
    <<build, main_pc, main_i, sim_pc, sim_inbox, sim_running, current_leader,
      sim_stats, sim_i, cores_arrived>>

coordVars == <<system_running, load_balancer_mutex>>
coreVars == <<running, all_cores, worker, wpc, cur>>
inboxVars == <<inbox, inbox_mutex, seq, last_dispatched>>
procVars == <<process_table, process_mutex, current_load, global_pid>>
statVars == <<messages_sent, messages_received, avg_message_latency_us>>
execVars == <<processes_executed, context_switches>>

\* MultikernelSystem() then nothing else: every CoreKernel(id) constructed
\* with running(false), all_cores(nullptr), no worker thread.
Init ==
    /\ system_running = FALSE
    /\ load_balancer_mutex = 0
    /\ global_pid = 0
    /\ running = [c \in Cores |-> FALSE]
    /\ all_cores = [c \in Cores |-> FALSE]
    /\ worker = [c \in Cores |-> "none"]
    /\ wpc = [c \in Cores |-> "top"]
    /\ cur = [c \in Cores |-> Message]
    /\ inbox = [c \in Cores |-> <<>>]
    /\ inbox_mutex = [c \in Cores |-> 0]
    /\ process_table = [c \in Cores |-> <<>>]
    /\ process_mutex = [c \in Cores |-> 0]
    /\ messages_sent = [c \in Cores |-> 0]
    /\ messages_received = [c \in Cores |-> 0]
    /\ avg_message_latency_us = [c \in Cores |-> 0]
    /\ processes_executed = [c \in Cores |-> 0]
    /\ context_switches = [c \in Cores |-> 0]
    /\ current_load = [c \in Cores |-> 0]
    /\ pc = [t \in Drivers |-> "idle"]
    /\ loc = [t \in Drivers |-> NoLocals]
    /\ ret = [t \in Drivers |-> NoReturn]
    /\ aborted = FALSE
    /\ seq = 0
    /\ last_dispatched = [c \in Cores |-> 0]
    /\ global_process_table = <<>>
    /\ global_lock = 0
    /\ next_pid = 0
    /\ smp_running = FALSE
    /\ lock_contentions = 0
    /\ cache_invalidations = 0
    /\ total_operations = 0
    /\ core_threads = [c \in Cores |-> "none"]
    /\ smp_pc = [t \in Drivers |-> "idle"]
    /\ smp_loc = [t \in Drivers |-> [i |-> 0, priority |-> 0]]
    /\ smp_ret = [t \in Drivers |-> -1]
    /\ acquisitions = 0
    /\ build = "none"
    /\ main_pc = "init"
    /\ main_i = 0
    /\ sim_pc = [c \in SimCores |-> "unborn"]
    /\ sim_inbox = [c \in SimCores |-> <<>>]
    /\ sim_running = [c \in SimCores |-> FALSE]
    /\ current_leader = [c \in SimCores |-> -1]
    /\ sim_stats = [c \in SimCores |->
                      [messages_sent |-> 0, messages_received |-> 0]]
    /\ sim_i = [c \in SimCores |-> 0]
    /\ cores_arrived = 0

\* ------------------------------------------------------------ helpers
RECURSIVE SumOver(_, _)
SumOver(f, S) ==
    IF S = {} THEN 0
    ELSE LET x == CHOOSE y \in S : TRUE IN f[x] + SumOver(f, S \ {x})

\* std::find_if over process_table: the first index holding pid, 0 for end().
FindPid(table, pid) ==
    IF \E i \in 1 .. Len(table) : table[i].pid = pid
    THEN CHOOSE i \in 1 .. Len(table) :
            /\ table[i].pid = pid
            /\ \A j \in 1 .. i - 1 : table[j].pid # pid
    ELSE 0

\* vector::erase(it).
EraseAt(table, i) == SubSeq(table, 1, i - 1) \o SubSeq(table, i + 1, Len(table))

\* std::remove_if + erase of the PCBs in state TERMINATED, order kept.
Terminated(pcb) == pcb.state = "PROCESS_TERMINATED"

\* RemoveTerminated without the sweep.
RemoveNothing(table) == table

RemoveTerminated(table) == SelectSeq(table, LAMBDA pcb : ~Terminated(pcb))

\* A driver's call ends: it returns val to its caller.
Finish(t, op, args, val) ==
    /\ pc' = [pc EXCEPT ![t] = "returned"]
    /\ ret' = [ret EXCEPT ![t] = [op |-> op, args |-> args, val |-> val]]
    /\ loc' = [loc EXCEPT ![t] = NoLocals]

\* The caller takes the returned value and is ready for its next call.
Return(t) ==
    /\ pc[t] = "returned"
    /\ pc' = [pc EXCEPT ![t] = "idle"]
    /\ ret' = [ret EXCEPT ![t] = NoReturn]
    /\ UNCHANGED <<coordVars, coreVars, inboxVars, procVars, statVars, loc, aborted>>
    /\ UNCHANGED <<execVars, smpVars, simVars>>

\* Pushes a driver may still make in the call it is in.
PendingPushes(t) ==
    CASE pc[t] \in {"send_entry", "send_lock", "send_push"} ->
            1 + (IF loc[t].cont \in {"sd_send", "hb_send", "bc_send"}
                 THEN NUM_CORES - loc[t].i ELSE 0)
      [] pc[t] = "send_count" ->
            (IF loc[t].cont \in {"sd_send", "hb_send", "bc_send"}
             THEN NUM_CORES - loc[t].i ELSE 0)
      [] pc[t] \in {"sd_send", "hb_send", "bc_send"} -> NUM_CORES - loc[t].i
      [] pc[t] = "mp_lock" -> 1
      [] OTHER -> 0

\* Room left under MaxMsgs for n more pushes.
PushBudget(n) ==
    seq + SumOver([t \in Drivers |-> PendingPushes(t)], Drivers) + n <= MaxMsgs

\* Pids that calls and messages under way will still draw.
PendingPids ==
    Cardinality({t \in Drivers : pc[t] \in {"gllc_lock", "gllc_scan", "cp_create"}})
    + Cardinality({t \in Drivers :
          /\ pc[t] \in {"send_entry", "send_lock", "send_push", "send_count"}
          /\ loc[t].msg.type = "MSG_PROCESS_CREATE"})
    + SumOver([c \in Cores |->
          Cardinality({i \in 1 .. Len(inbox[c]) :
                          inbox[c][i].type = "MSG_PROCESS_CREATE"})
          + (IF wpc[c] = "dispatch" /\ cur[c].type = "MSG_PROCESS_CREATE"
             THEN 1 ELSE 0)], Cores)

PidBudget == global_pid + PendingPids < MaxPid

\* ------------------------------------------- CoreKernel::send_message
\* A driver enters cores[sender]->send_message(m); cont is where the
\* caller goes on when it returns ("returned": the caller called it directly).
CallSend(t, sender, m, cont, i) ==
    /\ pc' = [pc EXCEPT ![t] = "send_entry"]
    /\ loc' = [loc EXCEPT ![t].sender = sender, ![t].msg = m,
                          ![t].cont = cont, ![t].i = i]

\* send_message returns to its caller; enqueued is 1 when the message was
\* pushed, 0 when it was dropped.
SendExit(t, enqueued) ==
    IF loc[t].cont = "returned"
    THEN Finish(t, "send_message",
                <<loc[t].sender, loc[t].msg.dest_core>>, enqueued)
    ELSE /\ pc' = [pc EXCEPT ![t] = loc[t].cont]
         /\ loc' = [loc EXCEPT ![t].msg = Message, ![t].sender = -1,
                               ![t].cont = "none"]
         /\ UNCHANGED ret

\* The two checks before routing: dest_core in [0, NUM_CORES), and
\* all_cores set and large enough (it has NUM_CORES entries once set).
SendRoutable(sender, m) ==
    /\ ~(m.dest_core < 0 \/ m.dest_core >= NUM_CORES)
    /\ all_cores[sender]

SendEntry(t) ==
    /\ pc[t] = "send_entry"
    /\ ~aborted
    /\ IF SendRoutable(loc[t].sender, loc[t].msg)
       THEN /\ pc' = [pc EXCEPT ![t] = "send_lock"]
            /\ UNCHANGED <<loc, ret>>
       ELSE SendExit(t, 0)
    /\ UNCHANGED <<coordVars, coreVars, inboxVars, procVars, statVars, aborted>>
    /\ UNCHANGED <<execVars, smpVars, simVars>>

\* InboxFull with the comparison off by one.
InboxFullOffByOne(q) == Len(q) > MESSAGE_QUEUE_SIZE

\* if (dest->inbox.size() >= MESSAGE_QUEUE_SIZE)
InboxFull(q) == Len(q) >= MESSAGE_QUEUE_SIZE

\* SendLock without the lock: the capacity check is made whoever holds
\* inbox_mutex.
SendLockNoMutex(t) ==
    /\ pc[t] = "send_lock"
    /\ ~aborted
    /\ LET d == loc[t].msg.dest_core
       IN  IF InboxFull(inbox[d])
           THEN SendExit(t, 0)
           ELSE /\ pc' = [pc EXCEPT ![t] = "send_push"]
                /\ UNCHANGED <<loc, ret>>
    /\ UNCHANGED <<coordVars, coreVars, inboxVars, procVars, statVars, aborted>>
    /\ UNCHANGED <<execVars, smpVars, simVars>>

\* std::unique_lock lock(dest->inbox_mutex), then the capacity check: a
\* full inbox ends the call (the lock is released by the return).
SendLock(t) ==
    /\ pc[t] = "send_lock"
    /\ ~aborted
    /\ LET d == loc[t].msg.dest_core
       IN  /\ inbox_mutex[d] = 0
           /\ IF InboxFull(inbox[d])
              THEN /\ SendExit(t, 0)
                   /\ UNCHANGED inbox_mutex
              ELSE /\ inbox_mutex' = [inbox_mutex EXCEPT ![d] = t]
                   /\ pc' = [pc EXCEPT ![t] = "send_push"]
                   /\ UNCHANGED <<loc, ret>>
    /\ UNCHANGED <<coordVars, coreVars, inbox, seq, last_dispatched,
                   procVars, statVars, aborted>>
    /\ UNCHANGED <<execVars, smpVars, simVars>>

\* Push at the front instead of the back.
PushFront(q, m) == <<m>> \o q

\* std::queue::push: the message goes to the back.
Push(q, m) == Append(q, m)

\* SendPush releasing inbox_mutex right after the push, before the sender
\* counts the message.
SendPushUnlocks(t) ==
    /\ pc[t] = "send_push"
    /\ ~aborted
    /\ LET d == loc[t].msg.dest_core
       IN  /\ inbox' = [inbox EXCEPT
                          ![d] = Push(@, [loc[t].msg EXCEPT !.seq = seq + 1])]
           /\ inbox_mutex' = [inbox_mutex EXCEPT ![d] = 0]
           /\ seq' = seq + 1
    /\ pc' = [pc EXCEPT ![t] = "send_count"]
    /\ UNCHANGED <<coordVars, coreVars, last_dispatched,
                   procVars, statVars, loc, ret, aborted>>
    /\ UNCHANGED <<execVars, smpVars, simVars>>

\* dest->inbox.push(msg); dest->inbox_cv.notify_one();
SendPush(t) ==
    /\ pc[t] = "send_push"
    /\ ~aborted
    /\ LET d == loc[t].msg.dest_core
       IN  /\ inbox' = [inbox EXCEPT
                          ![d] = Push(@, [loc[t].msg EXCEPT !.seq = seq + 1])]
           /\ seq' = seq + 1
    /\ pc' = [pc EXCEPT ![t] = "send_count"]
    /\ UNCHANGED <<coordVars, coreVars, inbox_mutex, last_dispatched,
                   procVars, statVars, loc, ret, aborted>>
    /\ UNCHANGED <<execVars, smpVars, simVars>>

\* stats.messages_sent++ on the sending core, then the lock is released.
SendCount(t) ==
    /\ pc[t] = "send_count"
    /\ ~aborted
    /\ messages_sent' = [messages_sent EXCEPT ![loc[t].sender] = @ + 1]
    /\ inbox_mutex' = [inbox_mutex EXCEPT ![loc[t].msg.dest_core] = 0]
    /\ SendExit(t, 1)
    /\ UNCHANGED <<coordVars, coreVars, inbox, seq, last_dispatched,
                   procVars, messages_received, avg_message_latency_us,
                   aborted>>
    /\ UNCHANGED <<execVars, smpVars, simVars>>

\* snprintf(heartbeat.data, MAX_MESSAGE_SIZE, "Heartbeat from Core 0"),
\* a word for a run of letters.
HeartbeatText == <<"Heartbeat", " ", "from", " ", "Core", " ", "0">>

\* Message types a driver passes to send_message directly.
SendTypes ==
    {"MSG_HEARTBEAT", "MSG_PROCESS_CREATE", "MSG_PROCESS_TERMINATE",
     "MSG_RESOURCE_REQUEST", "MSG_SHUTDOWN"}

\* Payloads of such messages: none, or a priority.
SendData == {<<>>} \cup {snprintf_priority(p) : p \in Priorities}

\* A driver calls cores[c]->send_message(m), c in Senders, with a message
\* of its making, of a type in Types.
SendMessageFrom(t, Senders, Types) ==
    /\ pc[t] = "idle"
    /\ ~aborted
    /\ PushBudget(1)
    /\ \E c \in Senders, d \in -1 .. NUM_CORES, ty \in Types :
         \E p \in (IF ty = "MSG_PROCESS_TERMINATE" THEN 0 .. MaxPid - 1 ELSE {-1}),
            dat \in (IF ty = "MSG_PROCESS_CREATE" THEN SendData ELSE {<<>>}) :
           /\ ty = "MSG_PROCESS_CREATE" => PidBudget
           /\ CallSend(t, c,
                [Message EXCEPT !.source_core = c, !.dest_core = d,
                                !.type = ty, !.process_id = p, !.data = dat],
                "returned", 0)
    /\ UNCHANGED <<coordVars, coreVars, inboxVars, procVars, statVars, ret, aborted>>
    /\ UNCHANGED <<execVars, smpVars, simVars>>

SendMessageOf(t, Types) == SendMessageFrom(t, Cores, Types)

SendMessage(t) == SendMessageOf(t, SendTypes)

\* ------------------------------------------------ CoreKernel process table
\* create_process(priority) under process_mutex: pid = global_pid++, a new
\* PCB at the back, current_load++.
create_process_table(table, pid, core, priority) ==
    Append(table, ProcessControlBlock(pid, core, priority))

\* handle_process_migrate: a new PCB built from the message's pid and the
\* parsed priority at the back of the table.
handle_process_migrate_table(table, core, m) ==
    Append(table,
           ProcessControlBlock(m.process_id, core,
                               sscanf_priority(m.data, DEFAULT_PRIORITY)))

\* terminate_process_table erasing the PCB at the front whatever its pid.
terminate_front(table, pid) ==
    IF table # <<>> THEN Tail(table) ELSE table

\* terminate_process(pid): erase the first PCB with that pid, if any.
terminate_process_table(table, pid) ==
    IF FindPid(table, pid) # 0 THEN EraseAt(table, FindPid(table, pid)) ELSE table

\* TerminationThreshold with the thresholds of the youngest and the oldest
\* class exchanged.
TerminationThresholdYoungFirst(cpu_ms) ==
    IF cpu_ms > 600 THEN 80
    ELSE IF cpu_ms > 300 THEN 50
    ELSE IF cpu_ms > 150 THEN 70
    ELSE 20

\* The threshold a draw must exceed for the PCB to be terminated.
TerminationThreshold(cpu_ms) ==
    IF cpu_ms > 600 THEN 20
    ELSE IF cpu_ms > 300 THEN 50
    ELSE IF cpu_ms > 150 THEN 70
    ELSE 80

\* Scheduled leaving out the PCBs that are RUNNING.
ScheduledReadyOnly(pcb) == pcb.state = "PROCESS_READY"

\* if (pcb->state == PROCESS_READY || pcb->state == PROCESS_RUNNING)
Scheduled(pcb) == pcb.state \in {"PROCESS_READY", "PROCESS_RUNNING"}

\* The loop of execute_processes with draw[i] the number drawn for the
\* i-th PCB: a READY or RUNNING PCB runs one quantum and is terminated when
\* its draw exceeds the threshold.
RunPass(table, draw) ==
    [i \in 1 .. Len(table) |->
        IF Scheduled(table[i])
        THEN LET cpu == table[i].cpu_time + QUANTUM_MS
             IN  [table[i] EXCEPT
                    !.cpu_time = cpu,
                    !.state = IF draw[i] > TerminationThreshold(cpu)
                              THEN "PROCESS_TERMINATED" ELSE "PROCESS_RUNNING"]
        ELSE table[i]]

\* DrawAbove with a draw that is above no threshold.
DrawLowest(pcb) == CHOOSE d \in Draws : \A e \in Draws : d <= e

\* The draws 1 .. 100 fall into those above the threshold and those not
\* above it; RunPass reads nothing else of a draw.  One draw of each kind:
DrawAbove(pcb) ==
    CHOOSE d \in Draws : d > TerminationThreshold(pcb.cpu_time + QUANTUM_MS)

DrawNotAbove(pcb) ==
    CHOOSE d \in Draws : ~(d > TerminationThreshold(pcb.cpu_time + QUANTUM_MS))

\* The draw vectors of a pass over table, one for each way the draws can
\* fall: T is the set of PCBs whose draw is above the threshold.
DrawVectors(table) ==
    {[i \in 1 .. Len(table) |->
        IF i \in T THEN DrawAbove(table[i]) ELSE DrawNotAbove(table[i])] :
     T \in SUBSET (1 .. Len(table))}

\* ------------------------------------------------ CoreKernel::worker_loop
\* while (running): enter the cycle, or leave the loop and end the thread.
WorkerTop(c) ==
    /\ worker[c] = "running"
    /\ wpc[c] = "top"
    /\ ~aborted
    /\ IF running[c]
       THEN wpc' = [wpc EXCEPT ![c] = "drain"] /\ UNCHANGED worker
       ELSE wpc' = [wpc EXCEPT ![c] = "done"]
            /\ worker' = [worker EXCEPT ![c] = "exited"]
    /\ UNCHANGED <<coordVars, running, all_cores, cur, inboxVars, procVars,
                   statVars, pc, loc, ret, aborted>>
    /\ UNCHANGED <<execVars, smpVars, simVars>>

\* receive_message(msg, 0): lock inbox_mutex; an empty inbox returns false
\* and the worker goes on to the scheduler pass.
ReceiveLock(c) ==
    /\ worker[c] = "running"
    /\ wpc[c] = "drain"
    /\ ~aborted
    /\ inbox_mutex[c] = 0
    /\ IF inbox[c] = <<>>
       THEN wpc' = [wpc EXCEPT ![c] = "exec"] /\ UNCHANGED inbox_mutex
       ELSE wpc' = [wpc EXCEPT ![c] = "recv_pop"]
            /\ inbox_mutex' = [inbox_mutex EXCEPT ![c] = WorkerId(c)]
    /\ UNCHANGED <<coordVars, running, all_cores, worker, cur, inbox, seq,
                   last_dispatched, procVars, statVars, pc, loc, ret, aborted>>
    /\ UNCHANGED <<execVars, smpVars, simVars>>

\* std::queue::front and pop.
Front(q) == Head(q)
Pop(q) == Tail(q)

\* The timeout the worker loop passes: receive_message(msg, 0).
WORKER_TIMEOUT_MS == 0

\* now - msg.timestamp of a dequeued message m.  Clock readings are not
\* modelled: the sample of m is told from the others by m.seq, which is
\* above 0 for every message that was pushed.
LatencySample(m) == m.seq

\* What receive_message(msg, timeout_ms) leaves in avg_message_latency_us
\* when it dequeues m: the branch for timeout_ms > 0 stores the sample, the
\* non-blocking branch stores nothing.
LatencyAfterReceive(timeout_ms, old, m) ==
    IF timeout_ms > 0 THEN LatencySample(m) ELSE old

\* ReceivePop keeping inbox_mutex while the message is dispatched.
ReceivePopKeepsLock(c) ==
    /\ worker[c] = "running"
    /\ wpc[c] = "recv_pop"
    /\ ~aborted
    /\ cur' = [cur EXCEPT ![c] = Front(inbox[c])]
    /\ inbox' = [inbox EXCEPT ![c] = Pop(@)]
    /\ messages_received' = [messages_received EXCEPT ![c] = @ + 1]
    /\ avg_message_latency_us' = [avg_message_latency_us EXCEPT ![c] =
          LatencyAfterReceive(WORKER_TIMEOUT_MS, @, Front(inbox[c]))]
    /\ wpc' = [wpc EXCEPT ![c] = "dispatch"]
    /\ UNCHANGED <<coordVars, running, all_cores, worker, inbox_mutex, seq,
                   last_dispatched, procVars, messages_sent, pc, loc, ret,
                   aborted>>
    /\ UNCHANGED <<execVars, smpVars, simVars>>

\* msg = inbox.front(); inbox.pop(); stats.messages_received++; return true.
ReceivePop(c) ==
    /\ worker[c] = "running"
    /\ wpc[c] = "recv_pop"
    /\ ~aborted
    /\ cur' = [cur EXCEPT ![c] = Front(inbox[c])]
    /\ inbox' = [inbox EXCEPT ![c] = Pop(@)]
    /\ messages_received' = [messages_received EXCEPT ![c] = @ + 1]
    /\ avg_message_latency_us' = [avg_message_latency_us EXCEPT ![c] =
          LatencyAfterReceive(WORKER_TIMEOUT_MS, @, Front(inbox[c]))]
    /\ inbox_mutex' = [inbox_mutex EXCEPT ![c] = 0]
    /\ wpc' = [wpc EXCEPT ![c] = "dispatch"]
    /\ UNCHANGED <<coordVars, running, all_cores, worker, seq, last_dispatched,
                   procVars, messages_sent, pc, loc, ret, aborted>>
    /\ UNCHANGED <<execVars, smpVars, simVars>>

\* The message types process_message has no handler for: HEARTBEAT breaks
\* at once, the other three reach default, which prints the type.
QuietTypes ==
    {"MSG_RESOURCE_REQUEST", "MSG_RESOURCE_RELEASE", "MSG_SYNC_BARRIER",
     "MSG_HEARTBEAT"}

\* StopsWorker with default stopping the worker as well.
StopsWorkerOrUnknown(type) ==
    type \notin {"MSG_PROCESS_CREATE", "MSG_PROCESS_MIGRATE",
                 "MSG_PROCESS_TERMINATE", "MSG_HEARTBEAT"}

\* case MSG_SHUTDOWN: running = false.
StopsWorker(type) == type = "MSG_SHUTDOWN"

\* process_message(msg): the switch on msg.type.  The handlers that touch
\* the process table hold process_mutex for their whole body.
ProcessMessage(c) ==
    /\ worker[c] = "running"
    /\ wpc[c] = "dispatch"
    /\ ~aborted
    /\ LET m == cur[c] IN
       CASE m.type = "MSG_PROCESS_CREATE" ->
              /\ process_mutex[c] = 0
              /\ process_table' = [process_table EXCEPT ![c] =
                    create_process_table(@, global_pid, c,
                        sscanf_priority(m.data, DEFAULT_PRIORITY))]
              /\ global_pid' = global_pid + 1
              /\ current_load' = [current_load EXCEPT ![c] = @ + 1]
              /\ UNCHANGED running
         [] m.type = "MSG_PROCESS_MIGRATE" ->
              /\ process_mutex[c] = 0
              /\ process_table' = [process_table EXCEPT ![c] =
                    handle_process_migrate_table(@, c, m)]
              /\ current_load' = [current_load EXCEPT ![c] = @ + 1]
              /\ UNCHANGED <<running, global_pid>>
         [] m.type = "MSG_PROCESS_TERMINATE" ->
              /\ process_mutex[c] = 0
              /\ process_table' = [process_table EXCEPT ![c] =
                    terminate_process_table(@, m.process_id)]
              /\ current_load' = [current_load EXCEPT ![c] =
                    IF FindPid(process_table[c], m.process_id) # 0
                    THEN @ - 1 ELSE @]
              /\ UNCHANGED <<running, global_pid>>
         [] StopsWorker(m.type) ->
              /\ running' = [running EXCEPT ![c] = FALSE]
              /\ UNCHANGED <<process_table, current_load, global_pid>>
         [] OTHER ->
              UNCHANGED <<running, process_table, current_load, global_pid>>
    /\ last_dispatched' = [last_dispatched EXCEPT ![c] = cur[c].seq]
    /\ cur' = [cur EXCEPT ![c] = Message]
    /\ wpc' = [wpc EXCEPT ![c] = "drain"]
    /\ UNCHANGED <<coordVars, all_cores, worker, inbox, inbox_mutex, seq,
                   process_mutex, statVars, pc, loc, ret, aborted>>
    /\ UNCHANGED <<execVars, smpVars, simVars>>

\* The PCBs of table a pass runs: stats.processes_executed++ and
\* stats.context_switches++ once for each.
ScheduledCount(table) == Len(SelectSeq(table, Scheduled))

\* Room left for a pass that runs n PCBs in a run whose passes execute
\* at most executed PCBs, all cores together.
ExecBudget(n, executed) == SumOver(processes_executed, Cores) + n <= executed

\* execute_processes() under process_mutex, then the 50 ms sleep, in a run
\* whose PCBs get at most quanta quanta each and whose passes execute at
\* most executed PCBs.
ExecuteProcessesWithin(c, quanta, executed) ==
    /\ worker[c] = "running"
    /\ wpc[c] = "exec"
    /\ ~aborted
    /\ process_mutex[c] = 0
    /\ \E draw \in DrawVectors(process_table[c]) :
         LET ran == RunPass(process_table[c], draw)
             swept == RemoveTerminated(ran)
         IN  /\ \A i \in 1 .. Len(swept) :
                   swept[i].cpu_time <= quanta * QUANTUM_MS
             /\ process_table' = [process_table EXCEPT ![c] = swept]
             /\ current_load' = [current_load EXCEPT ![c] = Len(swept)]
    /\ ExecBudget(ScheduledCount(process_table[c]), executed)
    /\ processes_executed' = [processes_executed EXCEPT ![c] =
          @ + ScheduledCount(process_table[c])]
    /\ context_switches' = [context_switches EXCEPT ![c] =
          @ + ScheduledCount(process_table[c])]
    /\ wpc' = [wpc EXCEPT ![c] = "top"]
    /\ UNCHANGED <<coordVars, running, all_cores, worker, cur, inboxVars,
                   process_mutex, global_pid, statVars, pc, loc, ret, aborted>>
    /\ UNCHANGED <<smpVars, simVars>>

ExecuteProcesses(c) == ExecuteProcessesWithin(c, MaxQuanta, MaxExecuted)

\* The threshold is the same for every cpu_time above 600 ms: such a
\* cpu_time is kept as the first multiple of the quantum above 600 ms.
AgeClass(cpu_ms) == IF cpu_ms > 600 THEN 600 + QUANTUM_MS ELSE cpu_ms

\* The counters of the passes are the same for every count above
\* MaxExecuted: such a count is kept as MaxExecuted.
CountClass(n) == IF n > MaxExecuted THEN MaxExecuted ELSE n

\* execute_processes() with no limit on the passes a PCB runs, the
\* cpu_time of a PCB kept by its AgeClass and the counters by CountClass.
ExecuteProcessesAged(c) ==
    /\ worker[c] = "running"
    /\ wpc[c] = "exec"
    /\ ~aborted
    /\ process_mutex[c] = 0
    /\ \E draw \in DrawVectors(process_table[c]) :
         LET ran == RunPass(process_table[c], draw)
             swept == RemoveTerminated(ran)
         IN  /\ process_table' = [process_table EXCEPT ![c] =
                   [i \in 1 .. Len(swept) |->
                      [swept[i] EXCEPT !.cpu_time = AgeClass(@)]]]
             /\ current_load' = [current_load EXCEPT ![c] = Len(swept)]
    /\ processes_executed' = [processes_executed EXCEPT ![c] =
          CountClass(@ + ScheduledCount(process_table[c]))]
    /\ context_switches' = [context_switches EXCEPT ![c] =
          CountClass(@ + ScheduledCount(process_table[c]))]
    /\ wpc' = [wpc EXCEPT ![c] = "top"]
    /\ UNCHANGED <<coordVars, running, all_cores, worker, cur, inboxVars,
                   process_mutex, global_pid, statVars, pc, loc, ret, aborted>>
    /\ UNCHANGED <<smpVars, simVars>>

\* A pass of core c in which the draw for the i-th PCB of its table is
\* above the threshold: the PCB is terminated and removed.
TerminatesAt(c, i) ==
    /\ ExecuteProcessesAged(c)
    /\ i <= Len(process_table[c])
    /\ \A j \in 1 .. Len(process_table'[c]) :
          process_table'[c][j].pid # process_table[c][i].pid

Worker(c) ==
    \/ WorkerTop(c)
    \/ ReceiveLock(c)
    \/ ReceivePop(c)
    \/ ProcessMessage(c)
    \/ ExecuteProcesses(c)

\* ------------------------------------------------ MultikernelSystem
INT_MAX == 2147483647

\* Start without the system_running check.
StartUnchecked(t) ==
    /\ pc[t] = "idle"
    /\ ~aborted
    /\ system_running' = TRUE
    /\ pc' = [pc EXCEPT ![t] = "start_core"]
    /\ loc' = [loc EXCEPT ![t].i = 0]
    /\ UNCHANGED <<load_balancer_mutex, coreVars, inboxVars, procVars,
                   statVars, ret, aborted>>
    /\ UNCHANGED <<execVars, smpVars, simVars>>

\* start(): already running returns at once (val 0: "System already
\* running!" was printed); otherwise system_running is set, core_ptrs is
\* rebuilt and the cores are started one after another (val 1).
Start(t) ==
    /\ pc[t] = "idle"
    /\ ~aborted
    /\ IF system_running
       THEN Finish(t, "start", <<>>, 0) /\ UNCHANGED system_running
       ELSE /\ system_running' = TRUE
            /\ pc' = [pc EXCEPT ![t] = "start_core"]
            /\ loc' = [loc EXCEPT ![t].i = 0]
            /\ UNCHANGED ret
    /\ UNCHANGED <<load_balancer_mutex, coreVars, inboxVars, procVars,
                   statVars, aborted>>
    /\ UNCHANGED <<execVars, smpVars, simVars>>

\* std::thread::joinable(): a thread was started and has not been joined.
Joinable(w) == w \in {"running", "exited"}

\* core->start(&core_ptrs) for core loc.i: a running core returns at once;
\* otherwise all_cores and running are set and worker_thread is assigned a
\* new thread.  Assigning to a joinable std::thread calls std::terminate().
StartCore(t) ==
    /\ pc[t] = "start_core"
    /\ ~aborted
    /\ LET i == loc[t].i IN
       IF i = NUM_CORES
       THEN /\ Finish(t, "start", <<>>, 1)
            /\ UNCHANGED <<running, all_cores, worker, wpc, aborted>>
       ELSE /\ loc' = [loc EXCEPT ![t].i = i + 1]
            /\ UNCHANGED <<pc, ret>>
            /\ IF running[i]
               THEN UNCHANGED <<running, all_cores, worker, wpc, aborted>>
               ELSE /\ all_cores' = [all_cores EXCEPT ![i] = TRUE]
                    /\ running' = [running EXCEPT ![i] = TRUE]
                    /\ IF Joinable(worker[i])
                       THEN aborted' = TRUE /\ UNCHANGED <<worker, wpc>>
                       ELSE /\ worker' = [worker EXCEPT ![i] = "running"]
                            /\ wpc' = [wpc EXCEPT ![i] = "top"]
                            /\ UNCHANGED aborted
    /\ UNCHANGED <<coordVars, cur, inboxVars, procVars, statVars>>
    /\ UNCHANGED <<execVars, smpVars, simVars>>

\* shutdown(): not running returns at once; otherwise a SHUTDOWN message
\* is sent to every core through that core's own send_message, then every
\* core is stopped, then system_running is cleared.
Shutdown(t) ==
    /\ pc[t] = "idle"
    /\ ~aborted
    /\ IF ~system_running
       THEN Finish(t, "shutdown", <<>>, 0)
       ELSE /\ PushBudget(NUM_CORES)
            /\ pc' = [pc EXCEPT ![t] = "sd_send"]
            /\ loc' = [loc EXCEPT ![t].i = 0]
            /\ UNCHANGED ret
    /\ UNCHANGED <<coordVars, coreVars, inboxVars, procVars, statVars, aborted>>
    /\ UNCHANGED <<execVars, smpVars, simVars>>

ShutdownSend(t) ==
    /\ pc[t] = "sd_send"
    /\ ~aborted
    /\ LET i == loc[t].i IN
       IF i = NUM_CORES
       THEN /\ pc' = [pc EXCEPT ![t] = "sd_stop"]
            /\ loc' = [loc EXCEPT ![t].i = 0]
       ELSE CallSend(t, i,
                [Message EXCEPT !.type = "MSG_SHUTDOWN", !.source_core = -1,
                                !.dest_core = i],
                "sd_send", i + 1)
    /\ UNCHANGED <<coordVars, coreVars, inboxVars, procVars, statVars, ret, aborted>>
    /\ UNCHANGED <<execVars, smpVars, simVars>>

\* core->stop() for core loc.i up to the join: a core that is not running
\* returns at once; otherwise running is cleared, the inbox is notified and
\* a joinable worker is joined.  After the last core, system_running is
\* cleared and shutdown returns.
ShutdownStop(t) ==
    /\ pc[t] = "sd_stop"
    /\ ~aborted
    /\ LET i == loc[t].i IN
       IF i = NUM_CORES
       THEN /\ system_running' = FALSE
            /\ Finish(t, "shutdown", <<>>, 0)
            /\ UNCHANGED running
       ELSE /\ UNCHANGED <<system_running, ret>>
            /\ IF ~running[i]
               THEN /\ loc' = [loc EXCEPT ![t].i = i + 1]
                    /\ UNCHANGED <<running, pc>>
               ELSE /\ running' = [running EXCEPT ![i] = FALSE]
                    /\ IF Joinable(worker[i])
                       THEN /\ pc' = [pc EXCEPT ![t] = "sd_join"]
                            /\ UNCHANGED loc
                       ELSE /\ loc' = [loc EXCEPT ![t].i = i + 1]
                            /\ UNCHANGED pc
    /\ UNCHANGED <<load_balancer_mutex, all_cores, worker, wpc, cur, inboxVars,
                   procVars, statVars, aborted>>
    /\ UNCHANGED <<execVars, smpVars, simVars>>

\* worker_thread.join(): returns once the worker has left worker_loop.
ShutdownJoin(t) ==
    /\ pc[t] = "sd_join"
    /\ ~aborted
    /\ worker[loc[t].i] = "exited"
    /\ worker' = [worker EXCEPT ![loc[t].i] = "joined"]
    /\ pc' = [pc EXCEPT ![t] = "sd_stop"]
    /\ loc' = [loc EXCEPT ![t].i = @ + 1]
    /\ UNCHANGED <<coordVars, running, all_cores, wpc, cur, inboxVars,
                   procVars, statVars, ret, aborted>>
    /\ UNCHANGED <<execVars, smpVars, simVars>>

\* CreateProcess without the system_running check.
CreateProcessUnchecked(t) ==
    /\ pc[t] = "idle"
    /\ ~aborted
    /\ PidBudget
    /\ \E p \in Priorities :
         loc' = [loc EXCEPT ![t].priority = p, ![t].cont = "cp_create"]
    /\ pc' = [pc EXCEPT ![t] = "gllc_lock"]
    /\ UNCHANGED <<coordVars, coreVars, inboxVars, procVars, statVars, ret, aborted>>
    /\ UNCHANGED <<execVars, smpVars, simVars>>

\* create_process(priority): refused with -1 when the system is not
\* running; otherwise get_least_loaded_core() is called.  The code has no
\* other condition; budget is the bound on the pids drawn in a run.
CreateProcessBudget(t, Prios, budget) ==
    /\ pc[t] = "idle"
    /\ ~aborted
    /\ IF ~system_running
       THEN \E p \in Prios : Finish(t, "create_process", <<p>>, -1)
       ELSE /\ budget
            /\ \E p \in Prios :
                 loc' = [loc EXCEPT ![t].priority = p, ![t].cont = "cp_create"]
            /\ pc' = [pc EXCEPT ![t] = "gllc_lock"]
            /\ UNCHANGED ret
    /\ UNCHANGED <<coordVars, coreVars, inboxVars, procVars, statVars, aborted>>
    /\ UNCHANGED <<execVars, smpVars, simVars>>

CreateProcessWith(t, Prios) == CreateProcessBudget(t, Prios, PidBudget)

CreateProcess(t) == CreateProcessWith(t, Priorities)

\* get_least_loaded_core(): lock load_balancer_mutex; min_load = INT_MAX,
\* best_core = 0.
LeastLoadedLock(t) ==
    /\ pc[t] = "gllc_lock"
    /\ ~aborted
    /\ load_balancer_mutex = 0
    /\ load_balancer_mutex' = t
    /\ pc' = [pc EXCEPT ![t] = "gllc_scan"]
    /\ loc' = [loc EXCEPT ![t].i = 0, ![t].min_load = INT_MAX,
                          ![t].best_core = 0, ![t].seen = <<>>]
    /\ UNCHANGED <<system_running, coreVars, inboxVars, procVars, statVars,
                   ret, aborted>>
    /\ UNCHANGED <<execVars, smpVars, simVars>>

\* Better with the comparison turned round.
Worse(load, min_load) == load > min_load

\* Better taking a load equal to the minimum for the better one.
BetterOrEqual(load, min_load) == load <= min_load

\* if (load < min_load)
Better(load, min_load) == load < min_load

\* One turn of the scan: read core i's load, keep it if strictly smaller.
\* After the last core the lock is released and best_core is returned.
LeastLoadedScan(t) ==
    /\ pc[t] = "gllc_scan"
    /\ ~aborted
    /\ LET i == loc[t].i
           load == current_load[i]
           better == Better(load, loc[t].min_load)
           best == IF better THEN i ELSE loc[t].best_core
           min == IF better THEN load ELSE loc[t].min_load
       IN  IF i + 1 = NUM_CORES
           THEN /\ load_balancer_mutex' = 0
                /\ pc' = [pc EXCEPT ![t] = loc[t].cont]
                /\ loc' = [loc EXCEPT ![t].i = 0, ![t].min_load = 0,
                                      ![t].best_core = 0, ![t].target = best,
                                      ![t].cont = "none", ![t].seen = <<>>]
           ELSE /\ loc' = [loc EXCEPT ![t].i = i + 1, ![t].min_load = min,
                                      ![t].best_core = best,
                                      ![t].seen = Append(@, load)]
                /\ UNCHANGED <<load_balancer_mutex, pc>>
    /\ UNCHANGED <<system_running, coreVars, inboxVars, procVars, statVars,
                   ret, aborted>>
    /\ UNCHANGED <<execVars, smpVars, simVars>>

\* CreateOnCore reading the pid counter without incrementing it.
CreateOnCoreKeepsCounter(t) ==
    /\ pc[t] = "cp_create"
    /\ ~aborted
    /\ LET c == loc[t].target IN
       /\ process_mutex[c] = 0
       /\ process_table' = [process_table EXCEPT ![c] =
             create_process_table(@, global_pid, c, loc[t].priority)]
       /\ current_load' = [current_load EXCEPT ![c] = @ + 1]
    /\ Finish(t, "create_process", <<loc[t].priority>>, global_pid)
    /\ UNCHANGED <<coordVars, coreVars, inboxVars, process_mutex, global_pid,
                   statVars, aborted>>
    /\ UNCHANGED <<execVars, smpVars, simVars>>

\* CreateOnCore placing the process by a CREATE message to the target core
\* instead of a direct call.
CreateOnCoreByMessage(t) ==
    /\ pc[t] = "cp_create"
    /\ ~aborted
    /\ LET c == loc[t].target IN
       /\ inbox_mutex[c] = 0
       /\ ~InboxFull(inbox[c])
       /\ inbox' = [inbox EXCEPT ![c] =
             Push(@, [Message EXCEPT
                        !.source_core = c, !.dest_core = c,
                        !.type = "MSG_PROCESS_CREATE",
                        !.data = snprintf_priority(loc[t].priority),
                        !.seq = seq + 1])]
       /\ messages_sent' = [messages_sent EXCEPT ![c] = @ + 1]
    /\ seq' = seq + 1
    /\ Finish(t, "create_process", <<loc[t].priority>>, global_pid)
    /\ UNCHANGED <<coordVars, coreVars, inbox_mutex, last_dispatched, procVars,
                   messages_received, avg_message_latency_us, aborted>>
    /\ UNCHANGED <<execVars, smpVars, simVars>>

\* cores[target_core]->create_process(priority), under that core's
\* process_mutex; the pid is returned.
CreateOnCore(t) ==
    /\ pc[t] = "cp_create"
    /\ ~aborted
    /\ LET c == loc[t].target IN
       /\ process_mutex[c] = 0
       /\ process_table' = [process_table EXCEPT ![c] =
             create_process_table(@, global_pid, c, loc[t].priority)]
       /\ current_load' = [current_load EXCEPT ![c] = @ + 1]
    /\ global_pid' = global_pid + 1
    /\ Finish(t, "create_process", <<loc[t].priority>>, global_pid)
    /\ UNCHANGED <<coordVars, coreVars, inboxVars, process_mutex, statVars, aborted>>
    /\ UNCHANGED <<execVars, smpVars, simVars>>

\* ValidCores checking the source only.
ValidCoresSourceOnly(source_core, target_core) ==
    ~(source_core < 0 \/ source_core >= NUM_CORES)

\* The index check of MultikernelSystem::migrate_process.
ValidCores(source_core, target_core) ==
    ~(source_core < 0 \/ source_core >= NUM_CORES \/
      target_core < 0 \/ target_core >= NUM_CORES)

\* MultikernelSystem::migrate_process(pid, source, target): false on a
\* core id out of range, otherwise cores[source]->migrate_process.
MigrateProcess(t) ==
    /\ pc[t] = "idle"
    /\ ~aborted
    /\ PushBudget(1)
    /\ \E pid \in 0 .. MaxPid - 1, s \in -1 .. NUM_CORES, g \in -1 .. NUM_CORES :
         IF ValidCores(s, g)
         THEN /\ pc' = [pc EXCEPT ![t] = "mp_lock"]
              /\ loc' = [loc EXCEPT ![t].pid = pid, ![t].source = s, ![t].target = g]
              /\ UNCHANGED ret
         ELSE Finish(t, "migrate_process", <<pid, s, g>>, 0)
    /\ UNCHANGED <<coordVars, coreVars, inboxVars, procVars, statVars, aborted>>
    /\ UNCHANGED <<execVars, smpVars, simVars>>

\* CoreKernel::migrate_process up to the send: lock process_mutex and look
\* the pid up.  Unknown: return false.  Known: build the MIGRATE message
\* with "priority=<n>" and call send_message, the lock still held.
MigrateLock(t) ==
    /\ pc[t] = "mp_lock"
    /\ ~aborted
    /\ LET s == loc[t].source
           it == FindPid(process_table[s], loc[t].pid)
       IN  /\ process_mutex[s] = 0
           /\ IF it = 0
              THEN /\ Finish(t, "migrate_process",
                             <<loc[t].pid, s, loc[t].target>>, 0)
                   /\ UNCHANGED process_mutex
              ELSE /\ process_mutex' = [process_mutex EXCEPT ![s] = t]
                   /\ pc' = [pc EXCEPT ![t] = "send_entry"]
                   /\ loc' = [loc EXCEPT
                         ![t].sender = s,
                         ![t].cont = "mp_erase",
                         ![t].msg = [Message EXCEPT
                             !.source_core = s,
                             !.dest_core = loc[t].target,
                             !.type = "MSG_PROCESS_MIGRATE",
                             !.process_id = loc[t].pid,
                             !.data = snprintf_priority(
                                          process_table[s][it].priority)]]
                   /\ UNCHANGED ret
    /\ UNCHANGED <<coordVars, coreVars, inboxVars, process_table, current_load,
                   global_pid, statVars, aborted>>
    /\ UNCHANGED <<execVars, smpVars, simVars>>

\* MigrateErase without the decrement of current_load.
MigrateEraseKeepsLoad(t) ==
    /\ pc[t] = "mp_erase"
    /\ ~aborted
    /\ LET s == loc[t].source IN
       /\ process_table' = [process_table EXCEPT ![s] =
             EraseAt(@, FindPid(@, loc[t].pid))]
       /\ process_mutex' = [process_mutex EXCEPT ![s] = 0]
    /\ Finish(t, "migrate_process",
              <<loc[t].pid, loc[t].source, loc[t].target>>, 1)
    /\ UNCHANGED <<coordVars, coreVars, inboxVars, current_load, global_pid,
                   statVars, aborted>>
    /\ UNCHANGED <<execVars, smpVars, simVars>>

\* After send_message: process_table.erase(it); current_load--; the lock
\* is released and true returned.
MigrateErase(t) ==
    /\ pc[t] = "mp_erase"
    /\ ~aborted
    /\ LET s == loc[t].source IN
       /\ process_table' = [process_table EXCEPT ![s] =
             EraseAt(@, FindPid(@, loc[t].pid))]
       /\ current_load' = [current_load EXCEPT ![s] = @ - 1]
       /\ process_mutex' = [process_mutex EXCEPT ![s] = 0]
    /\ Finish(t, "migrate_process",
              <<loc[t].pid, loc[t].source, loc[t].target>>, 1)
    /\ UNCHANGED <<coordVars, coreVars, inboxVars, global_pid, statVars, aborted>>
    /\ UNCHANGED <<execVars, smpVars, simVars>>

\* balance_load(): the caller waits for load_balancer_mutex.
BalanceLoad(t) ==
    /\ pc[t] = "idle"
    /\ ~aborted
    /\ pc' = [pc EXCEPT ![t] = "bl_lock"]
    /\ UNCHANGED <<coordVars, coreVars, inboxVars, procVars, statVars, loc,
                   ret, aborted>>
    /\ UNCHANGED <<execVars, smpVars, simVars>>

BalanceLock(t) ==
    /\ pc[t] = "bl_lock"
    /\ ~aborted
    /\ load_balancer_mutex = 0
    /\ load_balancer_mutex' = t
    /\ pc' = [pc EXCEPT ![t] = "bl_sum"]
    /\ loc' = [loc EXCEPT ![t].i = 0, ![t].total = 0]
    /\ UNCHANGED <<system_running, coreVars, inboxVars, procVars, statVars,
                   ret, aborted>>
    /\ UNCHANGED <<execVars, smpVars, simVars>>

\* total_load += core->get_load(), one core a turn; after the last core a
\* total of 0 returns (releasing the lock), anything else starts the scan.
BalanceSum(t) ==
    /\ pc[t] = "bl_sum"
    /\ ~aborted
    /\ LET i == loc[t].i
           total == loc[t].total + current_load[i]
       IN  IF i + 1 < NUM_CORES
           THEN /\ loc' = [loc EXCEPT ![t].i = i + 1, ![t].total = total]
                /\ UNCHANGED <<load_balancer_mutex, pc, ret>>
           ELSE IF total = 0
                THEN /\ load_balancer_mutex' = 0
                     /\ Finish(t, "balance_load", <<>>, 0)
                ELSE /\ loc' = [loc EXCEPT ![t].i = 0, ![t].total = total]
                     /\ pc' = [pc EXCEPT ![t] = "bl_scan"]
                     /\ UNCHANGED <<load_balancer_mutex, ret>>
    /\ UNCHANGED <<system_running, coreVars, inboxVars, procVars, statVars, aborted>>
    /\ UNCHANGED <<execVars, smpVars, simVars>>

\* load > avg_load * 1.5 with avg_load = total_load / NUM_CORES, in whole
\* numbers: 2 * NUM_CORES * load > 3 * total_load.
Overloaded(load, total_load) == 2 * NUM_CORES * load > 3 * total_load

\* BalanceScan carrying the migration out instead of recording it: the
\* front PCB of an overloaded core is moved to the next core.
BalanceScanMigrates(t) ==
    /\ pc[t] = "bl_scan"
    /\ ~aborted
    /\ LET i == loc[t].i
           g == (i + 1) % NUM_CORES
       IN  /\ IF Overloaded(current_load[i], loc[t].total)
                 /\ process_table[i] # <<>>
              THEN /\ process_table' = [process_table EXCEPT
                         ![i] = Tail(@),
                         ![g] = Append(@, [Head(process_table[i])
                                             EXCEPT !.core_id = g])]
                   /\ current_load' = [current_load EXCEPT
                         ![i] = @ - 1, ![g] = @ + 1]
              ELSE UNCHANGED <<process_table, current_load>>
           /\ IF i + 1 < NUM_CORES
              THEN /\ loc' = [loc EXCEPT ![t].i = i + 1]
                   /\ UNCHANGED <<load_balancer_mutex, pc, ret>>
              ELSE /\ load_balancer_mutex' = 0
                   /\ Finish(t, "balance_load", <<>>, 0)
    /\ UNCHANGED <<system_running, coreVars, inboxVars, process_mutex,
                   global_pid, statVars, aborted>>
    /\ UNCHANGED <<execVars, smpVars, simVars>>

\* One turn of the second loop: an overloaded core makes the thread call
\* get_least_loaded_core(); after the last core the lock is released.
BalanceScan(t) ==
    /\ pc[t] = "bl_scan"
    /\ ~aborted
    /\ LET i == loc[t].i IN
       IF Overloaded(current_load[i], loc[t].total)
       THEN /\ pc' = [pc EXCEPT ![t] = "bl_relock"]
            /\ UNCHANGED <<load_balancer_mutex, loc, ret>>
       ELSE IF i + 1 < NUM_CORES
            THEN /\ loc' = [loc EXCEPT ![t].i = i + 1]
                 /\ UNCHANGED <<load_balancer_mutex, pc, ret>>
            ELSE /\ load_balancer_mutex' = 0
                 /\ Finish(t, "balance_load", <<>>, 0)
    /\ UNCHANGED <<system_running, coreVars, inboxVars, procVars, statVars, aborted>>
    /\ UNCHANGED <<execVars, smpVars, simVars>>

\* get_least_loaded_core() called from balance_load locks
\* load_balancer_mutex, which the calling thread owns: std::mutex is not
\* recursive and the behaviour is undefined.  Builds either block the thread
\* for ever (no step: the thread stays at bl_relock) or make lock() throw
\* std::system_error, which unwinds balance_load and releases the lock.
BalanceRelockThrows(t) ==
    /\ pc[t] = "bl_relock"
    /\ ~aborted
    /\ load_balancer_mutex = t
    /\ load_balancer_mutex' = 0
    /\ Finish(t, "balance_load_threw", <<>>, 0)
    /\ UNCHANGED <<system_running, coreVars, inboxVars, procVars, statVars, aborted>>
    /\ UNCHANGED <<execVars, smpVars, simVars>>

\* send_heartbeat_messages() with the loop starting at core 0.
SendHeartbeatMessagesFromZero(t) ==
    /\ pc[t] = "idle"
    /\ ~aborted
    /\ IF ~system_running
       THEN Finish(t, "send_heartbeat_messages", <<>>, 0)
       ELSE /\ PushBudget(NUM_CORES)
            /\ pc' = [pc EXCEPT ![t] = "hb_send"]
            /\ loc' = [loc EXCEPT ![t].i = 0,
                                  ![t].sent_before = messages_sent[0]]
            /\ UNCHANGED ret
    /\ UNCHANGED <<coordVars, coreVars, inboxVars, procVars, statVars, aborted>>
    /\ UNCHANGED <<execVars, smpVars, simVars>>

\* send_heartbeat_messages(): refused when the system is not running;
\* otherwise the loop over the cores 1 .. NUM_CORES-1 is entered.
SendHeartbeatMessages(t) ==
    /\ pc[t] = "idle"
    /\ ~aborted
    /\ IF ~system_running
       THEN Finish(t, "send_heartbeat_messages", <<>>, 0)
       ELSE /\ PushBudget(NUM_CORES - 1)
            /\ pc' = [pc EXCEPT ![t] = "hb_send"]
            /\ loc' = [loc EXCEPT ![t].i = 1,
                                  ![t].sent_before = messages_sent[0]]
            /\ UNCHANGED ret
    /\ UNCHANGED <<coordVars, coreVars, inboxVars, procVars, statVars, aborted>>
    /\ UNCHANGED <<execVars, smpVars, simVars>>

\* One turn of the loop: after the last core the call returns; it also
\* returns when core 0 is not running; otherwise core 0 sends a HEARTBEAT
\* to core i (cores[0]->send_message), and the loop goes on with i + 1.
HeartbeatSend(t) ==
    /\ pc[t] = "hb_send"
    /\ ~aborted
    /\ LET i == loc[t].i IN
       IF i >= NUM_CORES \/ ~running[0]
       THEN Finish(t, "send_heartbeat_messages", <<>>, 0)
       ELSE /\ CallSend(t, 0,
                   [Message EXCEPT !.source_core = 0, !.dest_core = i,
                                   !.type = "MSG_HEARTBEAT",
                                   !.data = HeartbeatText],
                   "hb_send", i + 1)
            /\ UNCHANGED ret
    /\ UNCHANGED <<coordVars, coreVars, inboxVars, procVars, statVars, aborted>>
    /\ UNCHANGED <<execVars, smpVars, simVars>>

Heartbeat(t) ==
    \/ SendHeartbeatMessages(t)
    \/ HeartbeatSend(t)

\* ------------------------------------------ CoreKernel::broadcast_message
\* Message types a driver broadcasts.
BroadcastTypes == {"MSG_SYNC_BARRIER", "MSG_HEARTBEAT"}

\* A driver calls cores[c]->broadcast_message(msg) with a message of its
\* making, addressed to nobody or to c itself; source holds c and arg the
\* message while the loop runs.  sent_before is c's messages_sent at entry.
BroadcastMessage(t) ==
    /\ pc[t] = "idle"
    /\ ~aborted
    /\ PushBudget(NUM_CORES - 1)
    /\ \E c \in Cores, ty \in BroadcastTypes :
         \E d \in {-1, c} :
           loc' = [loc EXCEPT
                     ![t].i = 0, ![t].source = c,
                     ![t].sent_before = messages_sent[c],
                     ![t].arg = [Message EXCEPT !.source_core = c,
                                                !.dest_core = d, !.type = ty]]
    /\ pc' = [pc EXCEPT ![t] = "bc_send"]
    /\ UNCHANGED <<coordVars, coreVars, inboxVars, procVars, statVars, ret, aborted>>
    /\ UNCHANGED <<execVars, smpVars, simVars>>

\* BroadcastSkips skipping no core.
BroadcastSkipsNone(i, core_id) == FALSE

\* if (i != core_id) guards the send: core_id itself is skipped.
BroadcastSkips(i, core_id) == i = core_id

\* One turn of the loop over i = 0 .. NUM_CORES-1: the sender's own index
\* is passed over; for any other i a copy of msg with dest_core = i goes to
\* send_message; after the last core the call returns.
BroadcastSend(t) ==
    /\ pc[t] = "bc_send"
    /\ ~aborted
    /\ LET i == loc[t].i
           c == loc[t].source
       IN  IF i >= NUM_CORES
           THEN Finish(t, "broadcast_message", <<c>>, 0)
           ELSE IF BroadcastSkips(i, c)
           THEN /\ loc' = [loc EXCEPT ![t].i = i + 1]
                /\ UNCHANGED <<pc, ret>>
           ELSE /\ CallSend(t, c, [loc[t].arg EXCEPT !.dest_core = i],
                            "bc_send", i + 1)
                /\ UNCHANGED ret
    /\ UNCHANGED <<coordVars, coreVars, inboxVars, procVars, statVars, aborted>>
    /\ UNCHANGED <<execVars, smpVars, simVars>>

Broadcast(t) ==
    \/ BroadcastMessage(t)
    \/ BroadcastSend(t)

\* -------------------------------------------------------------- SMPSystem
\* SMPProcess(id, prio): assigned_core(-1).
SMPProcess(id, prio) == [pid |-> id, priority |-> prio, assigned_core |-> -1]

\* The first loop of find_least_loaded_core_locked: core_loads[c] is the
\* number of processes in the table assigned to c.
core_loads(table) ==
    [c \in Cores |->
        Cardinality({i \in 1 .. Len(table) : table[i].assigned_core = c})]

\* SmpBetter taking a core of equal load as well.
SmpBetterOrEqual(load, min_load) == load <= min_load

\* if (core_loads[i] < min_load).
SmpBetter(load, min_load) == load < min_load

\* The second loop, from index i on, with min_core and min_load so far.
RECURSIVE SmpScan(_, _, _, _)
SmpScan(loads, i, min_core, min_load) ==
    IF i >= NUM_CORES THEN min_core
    ELSE IF SmpBetter(loads[i], min_load)
         THEN SmpScan(loads, i + 1, i, loads[i])
         ELSE SmpScan(loads, i + 1, min_core, min_load)

\* find_least_loaded_core_locked(): min_core = 0, min_load = core_loads[0],
\* then the scan from 1.
find_least_loaded_core_locked(table) ==
    SmpScan(core_loads(table), 1, 0, core_loads(table)[0])

\* SMPSystem::start(): nothing when running; otherwise running = true and
\* the core threads are started one after the other.
SmpStart(t) ==
    /\ smp_pc[t] = "idle"
    /\ IF smp_running
       THEN UNCHANGED <<smp_running, smp_pc, smp_loc>>
       ELSE /\ smp_running' = TRUE
            /\ smp_pc' = [smp_pc EXCEPT ![t] = "spawn"]
            /\ smp_loc' = [smp_loc EXCEPT ![t].i = 0]
    /\ UNCHANGED <<global_process_table, global_lock, next_pid,
                   lock_contentions, cache_invalidations, total_operations,
                   core_threads, smp_ret, acquisitions>>
    /\ UNCHANGED <<mkVars, simVars>>

\* core_threads.emplace_back(&SMPSystem::core_worker, this, i).
SmpSpawn(t) ==
    /\ smp_pc[t] = "spawn"
    /\ LET i == smp_loc[t].i IN
       IF i >= NUM_CORES
       THEN /\ smp_pc' = [smp_pc EXCEPT ![t] = "idle"]
            /\ UNCHANGED <<core_threads, smp_loc>>
       ELSE /\ core_threads' = [core_threads EXCEPT ![i] = "top"]
            /\ smp_loc' = [smp_loc EXCEPT ![t].i = i + 1]
            /\ UNCHANGED smp_pc
    /\ UNCHANGED <<global_process_table, global_lock, next_pid, smp_running,
                   lock_contentions, cache_invalidations, total_operations,
                   smp_ret, acquisitions>>
    /\ UNCHANGED <<mkVars, simVars>>

\* SMPSystem::stop(): nothing when not running; otherwise running = false
\* and the threads are joined.
SmpStop(t) ==
    /\ smp_pc[t] = "idle"
    /\ IF ~smp_running
       THEN UNCHANGED <<smp_running, smp_pc>>
       ELSE /\ smp_running' = FALSE
            /\ smp_pc' = [smp_pc EXCEPT ![t] = "join"]
    /\ UNCHANGED <<global_process_table, global_lock, next_pid,
                   lock_contentions, cache_invalidations, total_operations,
                   core_threads, smp_loc, smp_ret, acquisitions>>
    /\ UNCHANGED <<mkVars, simVars>>

\* thread.join() for every core thread, then core_threads.clear().
SmpJoin(t) ==
    /\ smp_pc[t] = "join"
    /\ \A c \in Cores : core_threads[c] = "exited"
    /\ core_threads' = [c \in Cores |-> "none"]
    /\ smp_pc' = [smp_pc EXCEPT ![t] = "idle"]
    /\ UNCHANGED <<global_process_table, global_lock, next_pid, smp_running,
                   lock_contentions, cache_invalidations, total_operations,
                   smp_loc, smp_ret, acquisitions>>
    /\ UNCHANGED <<mkVars, simVars>>

\* create_process(priority): lock_guard on global_lock, lock_contentions++.
SmpCreateLock(t) ==
    /\ smp_pc[t] = "idle"
    /\ next_pid
         + Cardinality({u \in Drivers : smp_pc[u] = "create"}) < MaxSmpPid
    /\ global_lock = 0
    /\ global_lock' = t
    /\ acquisitions' = acquisitions + 1
    /\ lock_contentions' = lock_contentions + 1
    /\ \E p \in Priorities : smp_loc' = [smp_loc EXCEPT ![t].priority = p]
    /\ smp_pc' = [smp_pc EXCEPT ![t] = "create"]
    /\ UNCHANGED <<global_process_table, next_pid, smp_running,
                   cache_invalidations, total_operations, core_threads,
                   smp_ret>>
    /\ UNCHANGED <<mkVars, simVars>>

\* SmpCreateBody without cache_invalidations++.
SmpCreateBodyNoInvalidation(t) ==
    /\ smp_pc[t] = "create"
    /\ global_process_table' =
          Append(global_process_table,
                 [SMPProcess(next_pid, smp_loc[t].priority) EXCEPT
                    !.assigned_core =
                       find_least_loaded_core_locked(global_process_table)])
    /\ next_pid' = next_pid + 1
    /\ global_lock' = 0
    /\ smp_ret' = [smp_ret EXCEPT ![t] = next_pid]
    /\ smp_pc' = [smp_pc EXCEPT ![t] = "idle"]
    /\ UNCHANGED <<smp_running, lock_contentions, cache_invalidations,
                   total_operations, core_threads, smp_loc, acquisitions>>
    /\ UNCHANGED <<mkVars, simVars>>

\* The rest of create_process, under the lock: pid = next_pid++, the
\* process is assigned to find_least_loaded_core_locked() and pushed to the
\* back of the table, cache_invalidations++, the lock is released and pid
\* returned.
SmpCreateBody(t) ==
    /\ smp_pc[t] = "create"
    /\ global_process_table' =
          Append(global_process_table,
                 [SMPProcess(next_pid, smp_loc[t].priority) EXCEPT
                    !.assigned_core =
                       find_least_loaded_core_locked(global_process_table)])
    /\ next_pid' = next_pid + 1
    /\ cache_invalidations' = cache_invalidations + 1
    /\ global_lock' = 0
    /\ smp_ret' = [smp_ret EXCEPT ![t] = next_pid]
    /\ smp_pc' = [smp_pc EXCEPT ![t] = "idle"]
    /\ UNCHANGED <<smp_running, lock_contentions, total_operations,
                   core_threads, smp_loc, acquisitions>>
    /\ UNCHANGED <<mkVars, simVars>>

\* core_worker: while (running), or the end of the thread.
SmpWorkerTop(c) ==
    /\ core_threads[c] = "top"
    /\ core_threads' = [core_threads EXCEPT ![c] =
          IF smp_running THEN "lock" ELSE "exited"]
    /\ UNCHANGED <<global_process_table, global_lock, next_pid, smp_running,
                   lock_contentions, cache_invalidations, total_operations,
                   smp_pc, smp_loc, smp_ret, acquisitions>>
    /\ UNCHANGED <<mkVars, simVars>>

\* A tick: lock_guard on global_lock, lock_contentions++.
SmpTickLock(c) ==
    /\ core_threads[c] = "lock"
    /\ total_operations < MaxTicks
    /\ global_lock = 0
    /\ global_lock' = WorkerId(c)
    /\ acquisitions' = acquisitions + 1
    /\ lock_contentions' = lock_contentions + 1
    /\ core_threads' = [core_threads EXCEPT ![c] = "tick"]
    /\ UNCHANGED <<global_process_table, next_pid, smp_running,
                   cache_invalidations, total_operations, smp_pc, smp_loc,
                   smp_ret>>
    /\ UNCHANGED <<mkVars, simVars>>

\* total_operations++, cache_invalidations++, the lock is released; then
\* the 100 ms sleep.
SmpTickBody(c) ==
    /\ core_threads[c] = "tick"
    /\ total_operations' = total_operations + 1
    /\ cache_invalidations' = cache_invalidations + 1
    /\ global_lock' = 0
    /\ core_threads' = [core_threads EXCEPT ![c] = "top"]
    /\ UNCHANGED <<global_process_table, next_pid, smp_running,
                   lock_contentions, smp_pc, smp_loc, smp_ret, acquisitions>>
    /\ UNCHANGED <<mkVars, simVars>>

\* ------------------------------------------------------- specifications
\* The thread that owns the MultikernelSystem and starts and stops it.
Main == 1

SendSteps(t) ==
    \/ SendEntry(t)
    \/ SendLock(t)
    \/ SendPush(t)
    \/ SendCount(t)

Lifecycle(t) ==
    \/ Start(t)
    \/ StartCore(t)
    \/ Shutdown(t)
    \/ ShutdownSend(t)
    \/ ShutdownStop(t)
    \/ ShutdownJoin(t)

Create(t) ==
    \/ CreateProcess(t)
    \/ LeastLoadedLock(t)
    \/ LeastLoadedScan(t)
    \/ CreateOnCore(t)

Migrate(t) ==
    \/ MigrateProcess(t)
    \/ MigrateLock(t)
    \/ MigrateErase(t)

Balance(t) ==
    \/ BalanceLoad(t)
    \/ BalanceLock(t)
    \/ BalanceSum(t)
    \/ BalanceScan(t)
    \/ BalanceRelockThrows(t)

Next ==
    \/ Lifecycle(Main)
    \/ \E t \in Drivers :
         \/ Create(t)
         \/ Migrate(t)
         \/ Balance(t)
         \/ Heartbeat(t)
         \/ SendMessage(t)
         \/ SendSteps(t)
         \/ Return(t)
    \/ \E c \in Cores : Worker(c)

Spec == Init /\ [][Next]_vars

\* Message passing: the system is started, every driver sends heartbeat and
\* shutdown messages through one core to any destination, in range or not,
\* and the workers drain and dispatch.
NextMsg ==
    \/ Start(Main)
    \/ StartCore(Main)
    \/ \E t \in Drivers :
         \/ SendMessageFrom(t, {(t - 1) % NUM_CORES},
                            {"MSG_HEARTBEAT", "MSG_SHUTDOWN"})
         \/ SendSteps(t)
         \/ Return(t)
    \/ \E c \in Cores : Worker(c)

SpecMsg == Init /\ [][NextMsg]_vars

\* Migration: one driver starts the system, creates processes, migrates
\* them and sends heartbeats, while the workers run.
NextMigrate ==
    \/ Start(Main)
    \/ StartCore(Main)
    \/ Create(Main)
    \/ Migrate(Main)
    \/ SendMessageOf(Main, {"MSG_HEARTBEAT"})
    \/ SendSteps(Main)
    \/ Return(Main)
    \/ \E c \in Cores : Worker(c)

SpecMigrate == Init /\ [][NextMigrate]_vars

\* Lifecycle: one driver starts and shuts the system down, creating and
\* migrating processes before, between and after.
NextLife ==
    \/ Lifecycle(Main)
    \/ Create(Main)
    \/ Migrate(Main)
    \/ SendSteps(Main)
    \/ Return(Main)
    \/ \E c \in Cores : Worker(c)

SpecLife == Init /\ [][NextLife]_vars

\* Placement: the system is started and every driver creates processes
\* while the workers run their scheduler passes.
NextCreate ==
    \/ Start(Main)
    \/ StartCore(Main)
    \/ \E t \in Drivers :
         \/ Create(t)
         \/ Return(t)
    \/ \E c \in Cores :
         \/ WorkerTop(c)
         \/ ReceiveLock(c)
         \/ ExecuteProcesses(c)

SpecCreate == Init /\ [][NextCreate]_vars

\* Placement by one caller: the system is started and one driver creates
\* processes one after another while the workers run their scheduler passes.
NextPlacement ==
    \/ Start(Main)
    \/ StartCore(Main)
    \/ Create(Main)
    \/ Return(Main)
    \/ \E c \in Cores :
         \/ WorkerTop(c)
         \/ ReceiveLock(c)
         \/ ExecuteProcesses(c)

SpecPlacement == Init /\ [][NextPlacement]_vars

\* Process management: one driver starts the system, creates and migrates
\* processes and sends TERMINATE messages for them through core 0, while
\* the workers dispatch and run their scheduler passes.
NextProc ==
    \/ Start(Main)
    \/ StartCore(Main)
    \/ Create(Main)
    \/ Migrate(Main)
    \/ SendMessageFrom(Main, {0}, {"MSG_PROCESS_TERMINATE"})
    \/ SendSteps(Main)
    \/ Return(Main)
    \/ \E c \in Cores : Worker(c)

SpecProc == Init /\ [][NextProc]_vars

\* Heartbeats: one driver starts the system, creates processes and calls
\* send_heartbeat_messages at moments when no inbox is full; the workers
\* drain, dispatch and run their scheduler passes.
NextHeartbeat ==
    \/ Start(Main)
    \/ StartCore(Main)
    \/ Create(Main)
    \/ (\A c \in Cores : ~InboxFull(inbox[c])) /\ SendHeartbeatMessages(Main)
    \/ HeartbeatSend(Main)
    \/ SendSteps(Main)
    \/ Return(Main)
    \/ \E c \in Cores : Worker(c)

SpecHeartbeat == Init /\ [][NextHeartbeat]_vars

\* Migration of processes of every priority: one driver starts the system,
\* creates a process with any priority of a PCB and then processes of the
\* usual priority and migrates them, and the workers dispatch the MIGRATE
\* messages and run their scheduler passes.
NextRoundTrip ==
    \/ Start(Main)
    \/ StartCore(Main)
    \/ CreateProcessWith(Main, IF global_pid = 0 THEN PcbPriorities ELSE Priorities)
    \/ LeastLoadedLock(Main)
    \/ LeastLoadedScan(Main)
    \/ CreateOnCore(Main)
    \/ Migrate(Main)
    \/ SendSteps(Main)
    \/ Return(Main)
    \/ \E c \in Cores : Worker(c)

SpecRoundTrip == Init /\ [][NextRoundTrip]_vars

\* Traffic without a handler: one driver starts the system, creates
\* processes and sends RESOURCE_REQUEST, RESOURCE_RELEASE, SYNC_BARRIER and
\* HEARTBEAT messages through core 0; the workers dispatch them and run
\* their scheduler passes.
NextResource ==
    \/ Start(Main)
    \/ StartCore(Main)
    \/ Create(Main)
    \/ SendMessageFrom(Main, {0}, QuietTypes)
    \/ SendSteps(Main)
    \/ Return(Main)
    \/ \E c \in Cores : Worker(c)

SpecResource == Init /\ [][NextResource]_vars

\* Broadcasts: one driver starts the system, creates processes and calls
\* broadcast_message on any core at moments when no inbox is full; the
\* workers drain, dispatch and run their scheduler passes.
NextBroadcast ==
    \/ Start(Main)
    \/ StartCore(Main)
    \/ Create(Main)
    \/ (\A c \in Cores : ~InboxFull(inbox[c])) /\ BroadcastMessage(Main)
    \/ BroadcastSend(Main)
    \/ SendSteps(Main)
    \/ Return(Main)
    \/ \E c \in Cores : Worker(c)

SpecBroadcast == Init /\ [][NextBroadcast]_vars

\* The SMP baseline: one thread starts and stops the system, every driver
\* creates processes, the core threads tick.
NextSMP ==
    \/ SmpStart(Main)
    \/ SmpSpawn(Main)
    \/ SmpStop(Main)
    \/ SmpJoin(Main)
    \/ \E t \in Drivers :
         \/ SmpCreateLock(t)
         \/ SmpCreateBody(t)
    \/ \E c \in Cores :
         \/ SmpWorkerTop(c)
         \/ SmpTickLock(c)
         \/ SmpTickBody(c)

SpecSMP == Init /\ [][NextSMP]_vars

\* A burst of creations: one driver starts the system and creates up to
\* MAX_PROCESSES + 1 processes before any worker has made its next step.
NextCapacity ==
    \/ Start(Main)
    \/ StartCore(Main)
    \/ CreateProcessBudget(Main, Priorities, global_pid <= MAX_PROCESSES)
    \/ LeastLoadedLock(Main)
    \/ LeastLoadedScan(Main)
    \/ CreateOnCore(Main)
    \/ Return(Main)

SpecCapacity == Init /\ [][NextCapacity]_vars

\* Drainage: the system is started, one driver creates processes, and the
\* workers cycle through their loop, a PCB running any number of passes.
NextDrain ==
    \/ Start(Main)
    \/ StartCore(Main)
    \/ Create(Main)
    \/ Return(Main)
    \/ \E c \in Cores :
         \/ WorkerTop(c)
         \/ ReceiveLock(c)
         \/ ExecuteProcessesAged(c)

\* The worker threads keep running: a worker that can make a step of its
\* loop makes one.  The termination draw is fair: a PCB whose core makes
\* pass after pass does not draw a number not above the threshold forever.
DrainFairness ==
    \A c \in Cores :
        /\ WF_vars(WorkerTop(c) \/ ReceiveLock(c) \/ ExecuteProcessesAged(c))
        /\ \A i \in 1 .. MaxPid : SF_vars(TerminatesAt(c, i))

SpecDrain == Init /\ [][NextDrain]_vars /\ DrainFairness

\* SHUTDOWN by message: one driver starts the system, creates processes and
\* sends SHUTDOWN and TERMINATE messages through core 0; the workers drain,
\* dispatch and run their scheduler passes.
NextStopMsg ==
    \/ Start(Main)
    \/ StartCore(Main)
    \/ Create(Main)
    \/ SendMessageFrom(Main, {0}, {"MSG_SHUTDOWN", "MSG_PROCESS_TERMINATE"})
    \/ SendSteps(Main)
    \/ Return(Main)
    \/ \E c \in Cores : Worker(c)

SpecStopMsg == Init /\ [][NextStopMsg]_vars

\* ------------------------------------------------ the messaging simulation
\* The simulation of messaging and distributed algorithms is a program of
\* its own, in two builds: MultikernelOSMessagingSimulation.cpp ("C++")
\* and the C program it was refactored from ("C").  They differ in what a
\* receive returns once running is false.
\* constexpr int QUEUE_SIZE = 256: the ring buffer holds QUEUE_SIZE - 1
\* messages.
QUEUE_SIZE == 256

\* A message of the simulation: source, destination, type.
SimMessage(src, dest, type) ==
    [src_core_id |-> src, dest_core_id |-> dest, type |-> type]

\* Message exit_msg; exit_msg.type = MsgType::SHUTDOWN.
ExitMessage == SimMessage(-1, -1, "SHUTDOWN")

\* Core::send_message(dest_id, type): nothing for a destination out of
\* range or a full ring buffer, else the message is pushed and
\* stats.messages_sent of the sender is incremented.
SimSendMessage(src, dest_id, type) ==
    IF dest_id < 0 \/ dest_id >= NumSimCores
       \/ Len(sim_inbox[dest_id]) >= QUEUE_SIZE - 1
    THEN UNCHANGED <<sim_inbox, sim_stats>>
    ELSE /\ sim_inbox' = [sim_inbox EXCEPT
               ![dest_id] = Append(@, SimMessage(src, dest_id, type))]
         /\ sim_stats' = [sim_stats EXCEPT ![src].messages_sent = @ + 1]

\* receive_message blocks while the inbox is empty and the core is running.
SimCanReceive(c) == sim_inbox[c] # <<>> \/ ~sim_running[c]

\* Whether the receive takes a message out of the inbox.  MessageQueue::pop
\* (C++) makes the exit message only when the buffer is empty; the C
\* receive_message makes it whenever running is false.
SimDequeues(c) ==
    IF build = "C++" THEN sim_inbox[c] # <<>> ELSE sim_running[c]

\* The message the receive returns.
SimReceived(c) == IF SimDequeues(c) THEN Head(sim_inbox[c]) ELSE ExitMessage

\* The effect of the receive on the inbox and on stats.messages_received
\* (the exit message is not counted).
SimReceiveMessage(c) ==
    IF SimDequeues(c)
    THEN /\ sim_inbox' = [sim_inbox EXCEPT ![c] = Tail(@)]
         /\ sim_stats' = [sim_stats EXCEPT ![c].messages_received =
               IF build = "C" \/ SimReceived(c).type # "SHUTDOWN"
               THEN @ + 1 ELSE @]
    ELSE UNCHANGED <<sim_inbox, sim_stats>>

\* main: the cores are initialised, running = true, current_leader = -1.
SimInitialize ==
    /\ main_pc = "init"
    /\ \E b \in {"C", "C++"} : build' = b
    /\ main_pc' = "boot"
    /\ main_i' = 0
    /\ sim_running' = [c \in SimCores |-> TRUE]
    /\ current_leader' = [c \in SimCores |-> -1]
    /\ UNCHANGED <<sim_pc, sim_inbox, sim_stats, sim_i, cores_arrived>>
    /\ UNCHANGED <<mkVars, smpVars>>

\* main: the thread of core main_i is launched; after the last one main
\* sleeps for two seconds.
SimBoot ==
    /\ main_pc = "boot"
    /\ sim_pc' = [sim_pc EXCEPT ![main_i] = "boot_delay"]
    /\ IF main_i + 1 < NumSimCores
       THEN main_i' = main_i + 1 /\ UNCHANGED main_pc
       ELSE main_i' = 0 /\ main_pc' = "sleep"
    /\ UNCHANGED <<build, sim_inbox, sim_running, current_leader, sim_stats,
                   sim_i, cores_arrived>>
    /\ UNCHANGED <<mkVars, smpVars>>

\* main: the sleep is over; running = false on core main_i and its inbox
\* is woken, one core a step; after the last one main joins.
SimShutdown ==
    /\ main_pc \in {"sleep", "shutdown"}
    /\ sim_running' = [sim_running EXCEPT ![main_i] = FALSE]
    /\ IF main_i + 1 < NumSimCores
       THEN main_i' = main_i + 1 /\ main_pc' = "shutdown"
       ELSE main_i' = 0 /\ main_pc' = "join"
    /\ UNCHANGED <<build, sim_pc, sim_inbox, current_leader, sim_stats,
                   sim_i, cores_arrived>>
    /\ UNCHANGED <<mkVars, smpVars>>

\* main: join the thread of core main_i, which returns once that thread
\* has ended; after the last one main reports and ends.
SimJoin ==
    /\ main_pc = "join"
    /\ sim_pc[main_i] = "done"
    /\ IF main_i + 1 < NumSimCores
       THEN main_i' = main_i + 1 /\ UNCHANGED main_pc
       ELSE main_i' = 0 /\ main_pc' = "done"
    /\ UNCHANGED <<build, sim_pc, sim_inbox, sim_running, current_leader,
                   sim_stats, sim_i, cores_arrived>>
    /\ UNCHANGED <<mkVars, smpVars>>

\* enter_barrier(): core 0 is the coordinator and counts itself; a worker
\* goes on to send BARRIER_REACHED.
EnterBarrier(c) ==
    /\ sim_pc[c] = "boot_delay"
    /\ IF c = 0
       THEN /\ cores_arrived' = 1
            /\ sim_pc' = [sim_pc EXCEPT ![c] = "coordinator_wait"]
       ELSE /\ sim_pc' = [sim_pc EXCEPT ![c] = "worker_send"]
            /\ UNCHANGED cores_arrived
    /\ UNCHANGED <<build, main_pc, main_i, sim_inbox, sim_running,
                   current_leader, sim_stats, sim_i>>
    /\ UNCHANGED <<mkVars, smpVars>>

\* CoordinatorReceive counting every message it receives as an arrival.
CoordinatorReceiveCountsAll ==
    /\ sim_pc[0] = "coordinator_wait"
    /\ SimCanReceive(0)
    /\ SimReceiveMessage(0)
    /\ cores_arrived' = cores_arrived + 1
    /\ IF cores_arrived' < NumSimCores
       THEN UNCHANGED <<sim_pc, sim_i>>
       ELSE /\ sim_pc' = [sim_pc EXCEPT ![0] = "coordinator_go"]
            /\ sim_i' = [sim_i EXCEPT ![0] = 1]
    /\ UNCHANGED <<build, main_pc, main_i, sim_running, current_leader>>
    /\ UNCHANGED <<mkVars, smpVars>>

\* The coordinator's loop: while (cores_arrived < NUM_CORES) a message is
\* received and counted when it is BARRIER_REACHED; then the GO loop begins.
CoordinatorReceive ==
    /\ sim_pc[0] = "coordinator_wait"
    /\ SimCanReceive(0)
    /\ SimReceiveMessage(0)
    /\ cores_arrived' = IF SimReceived(0).type = "BARRIER_REACHED"
                        THEN cores_arrived + 1 ELSE cores_arrived
    /\ IF cores_arrived' < NumSimCores
       THEN UNCHANGED <<sim_pc, sim_i>>
       ELSE /\ sim_pc' = [sim_pc EXCEPT ![0] = "coordinator_go"]
            /\ sim_i' = [sim_i EXCEPT ![0] = 1]
    /\ UNCHANGED <<build, main_pc, main_i, sim_running, current_leader>>
    /\ UNCHANGED <<mkVars, smpVars>>

\* for (i = 1; i < NUM_CORES; i++) send_message(i, BARRIER_GO); after the
\* last one the coordinator has passed the barrier.
CoordinatorGo ==
    /\ sim_pc[0] = "coordinator_go"
    /\ SimSendMessage(0, sim_i[0], "BARRIER_GO")
    /\ IF sim_i[0] + 1 < NumSimCores
       THEN /\ sim_i' = [sim_i EXCEPT ![0] = @ + 1]
            /\ UNCHANGED sim_pc
       ELSE /\ sim_i' = [sim_i EXCEPT ![0] = 0]
            /\ sim_pc' = [sim_pc EXCEPT ![0] = "passed"]
    /\ UNCHANGED <<build, main_pc, main_i, sim_running, current_leader,
                   cores_arrived>>
    /\ UNCHANGED <<mkVars, smpVars>>

\* A worker: send_message(0, BARRIER_REACHED).
WorkerSend(c) ==
    /\ sim_pc[c] = "worker_send"
    /\ SimSendMessage(c, 0, "BARRIER_REACHED")
    /\ sim_pc' = [sim_pc EXCEPT ![c] = "worker_wait"]
    /\ UNCHANGED <<build, main_pc, main_i, sim_running, current_leader,
                   sim_i, cores_arrived>>
    /\ UNCHANGED <<mkVars, smpVars>>

\* A worker: while (true) a message is received; BARRIER_GO ends the loop,
\* any other message is dropped.
WorkerReceive(c) ==
    /\ sim_pc[c] = "worker_wait"
    /\ SimCanReceive(c)
    /\ SimReceiveMessage(c)
    /\ sim_pc' = [sim_pc EXCEPT ![c] =
          IF SimReceived(c).type = "BARRIER_GO" THEN "passed" ELSE @]
    /\ UNCHANGED <<build, main_pc, main_i, sim_running, current_leader,
                   sim_i, cores_arrived>>
    /\ UNCHANGED <<mkVars, smpVars>>

\* run() after enter_barrier: core 1 starts an election, the others go to
\* the message loop.
AfterBarrier(c) ==
    /\ sim_pc[c] = "passed"
    /\ IF c = 1
       THEN /\ sim_pc' = [sim_pc EXCEPT ![c] = "election_vote"]
            /\ sim_i' = [sim_i EXCEPT ![c] = c + 1]
       ELSE /\ sim_pc' = [sim_pc EXCEPT ![c] = "loop"]
            /\ UNCHANGED sim_i
    /\ UNCHANGED <<build, main_pc, main_i, sim_inbox, sim_running,
                   current_leader, sim_stats, cores_arrived>>
    /\ UNCHANGED <<mkVars, smpVars>>

\* start_election(): ELECTION_VOTE to every core with a higher id, counted
\* in higher_cores; with higher_cores == 0 the core makes itself the leader
\* and sends ELECTION_WINNER to every other core.
StartElection(c) ==
    /\ sim_pc[c] \in {"election_vote", "election_winner"}
    /\ LET i == sim_i[c]
           higher_cores == i - (c + 1)
       IN  IF sim_pc[c] = "election_vote"
           THEN IF i < NumSimCores
                THEN /\ SimSendMessage(c, i, "ELECTION_VOTE")
                     /\ sim_i' = [sim_i EXCEPT ![c] = i + 1]
                     /\ UNCHANGED <<sim_pc, current_leader>>
                ELSE IF higher_cores = 0
                     THEN /\ current_leader' = [current_leader EXCEPT ![c] = c]
                          /\ sim_pc' = [sim_pc EXCEPT ![c] = "election_winner"]
                          /\ sim_i' = [sim_i EXCEPT ![c] = 0]
                          /\ UNCHANGED <<sim_inbox, sim_stats>>
                     ELSE /\ sim_pc' = [sim_pc EXCEPT ![c] = "loop"]
                          /\ sim_i' = [sim_i EXCEPT ![c] = 0]
                          /\ UNCHANGED <<current_leader, sim_inbox, sim_stats>>
           ELSE IF i < NumSimCores
                THEN /\ IF i # c
                        THEN SimSendMessage(c, i, "ELECTION_WINNER")
                        ELSE UNCHANGED <<sim_inbox, sim_stats>>
                     /\ sim_i' = [sim_i EXCEPT ![c] = i + 1]
                     /\ UNCHANGED <<sim_pc, current_leader>>
                ELSE /\ sim_pc' = [sim_pc EXCEPT ![c] = "loop"]
                     /\ sim_i' = [sim_i EXCEPT ![c] = 0]
                     /\ UNCHANGED <<current_leader, sim_inbox, sim_stats>>
    /\ UNCHANGED <<build, main_pc, main_i, sim_running, cores_arrived>>
    /\ UNCHANGED <<mkVars, smpVars>>

\* while (running): the core goes to receive, or its thread ends.
RunLoop(c) ==
    /\ sim_pc[c] = "loop"
    /\ sim_pc' = [sim_pc EXCEPT ![c] = IF sim_running[c] THEN "receive" ELSE "done"]
    /\ UNCHANGED <<build, main_pc, main_i, sim_inbox, sim_running,
                   current_leader, sim_stats, sim_i, cores_arrived>>
    /\ UNCHANGED <<mkVars, smpVars>>

\* The switch of the message loop.  SHUTDOWN: running = false (C++), goto
\* exit_thread (C).  ELECTION_WINNER: current_leader = msg.src_core_id.
\* ELECTION_VOTE and the rest: nothing.
RunReceive(c) ==
    /\ sim_pc[c] = "receive"
    /\ SimCanReceive(c)
    /\ SimReceiveMessage(c)
    /\ LET msg == SimReceived(c) IN
       CASE msg.type = "SHUTDOWN" ->
              /\ sim_running' = [sim_running EXCEPT
                    ![c] = IF build = "C++" THEN FALSE ELSE @]
              /\ sim_pc' = [sim_pc EXCEPT
                    ![c] = IF build = "C++" THEN "loop" ELSE "done"]
              /\ UNCHANGED current_leader
         [] msg.type = "ELECTION_WINNER" ->
              /\ current_leader' = [current_leader EXCEPT ![c] = msg.src_core_id]
              /\ sim_pc' = [sim_pc EXCEPT ![c] = "loop"]
              /\ UNCHANGED sim_running
         [] OTHER ->
              /\ sim_pc' = [sim_pc EXCEPT ![c] = "loop"]
              /\ UNCHANGED <<sim_running, current_leader>>
    /\ UNCHANGED <<build, main_pc, main_i, sim_i, cores_arrived>>
    /\ UNCHANGED <<mkVars, smpVars>>

\* The steps of the thread of core c.
SimCore(c) ==
    \/ EnterBarrier(c)
    \/ WorkerSend(c)
    \/ WorkerReceive(c)
    \/ AfterBarrier(c)
    \/ StartElection(c)
    \/ RunLoop(c)
    \/ RunReceive(c)

SimCoordinator ==
    \/ CoordinatorReceive
    \/ CoordinatorGo

\* The simulation as main runs it: the cores are booted, synchronise at
\* the barrier, core 1 starts an election, and main shuts the cores down
\* and joins them.  The two-second sleep of main is over at any moment.
NextSim ==
    \/ SimInitialize
    \/ SimBoot
    \/ SimShutdown
    \/ SimJoin
    \/ SimCoordinator
    \/ \E c \in SimCores : SimCore(c)

\* Every thread that can make a step makes one: main, and every core.
SimFairness ==
    /\ WF_vars(SimInitialize \/ SimBoot \/ SimShutdown \/ SimJoin)
    /\ WF_vars(SimCoordinator)
    /\ \A c \in SimCores : WF_vars(SimCore(c))

SpecSim == Init /\ [][NextSim]_vars /\ SimFairness

\* The simulation for as long as main sleeps: no shutdown.
NextElection ==
    \/ SimInitialize
    \/ SimBoot
    \/ SimCoordinator
    \/ \E c \in SimCores : SimCore(c)

ElectionFairness ==
    /\ WF_vars(SimInitialize \/ SimBoot)
    /\ WF_vars(SimCoordinator)
    /\ \A c \in SimCores : WF_vars(SimCore(c))

SpecElection == Init /\ [][NextElection]_vars /\ ElectionFairness

\* Locking: one driver starts the system and creates MaxPid processes of
\* the default priority; then every driver migrates them between any pair
\* of cores, a core to itself included (a call with a core id out of range
\* returns before any lock and is left out), while the workers receive,
\* dispatch and run their scheduler passes all along.
NextLocks ==
    \/ Start(Main)
    \/ StartCore(Main)
    \/ CreateProcessWith(Main, {DEFAULT_PRIORITY})
    \/ LeastLoadedLock(Main)
    \/ LeastLoadedScan(Main)
    \/ CreateOnCore(Main)
    \/ \E t \in Drivers :
         \/ MigrateProcess(t) /\ pc'[t] = "mp_lock" /\ global_pid = MaxPid
         \/ MigrateLock(t)
         \/ MigrateErase(t)
         \/ SendSteps(t)
         \/ Return(t)
    \/ \E c \in Cores : Worker(c)

SpecLocks == Init /\ [][NextLocks]_vars

\* Scheduling: one driver starts the system and creates processes while
\* the workers run pass after pass.
NextSched ==
    \/ Start(Main)
    \/ StartCore(Main)
    \/ Create(Main)
    \/ Return(Main)
    \/ \E c \in Cores :
         \/ WorkerTop(c)
         \/ ReceiveLock(c)
         \/ ExecuteProcessesWithin(c, MaxSchedQuanta, MaxSchedExecuted)

SpecSched == Init /\ [][NextSched]_vars

\* Pid allocation: the system is started, every driver creates processes
\* through the coordinator and sends CREATE messages through one core, and
\* the workers dispatch them and run their scheduler passes.
NextPid ==
    \/ Start(Main)
    \/ StartCore(Main)
    \/ \E t \in Drivers :
         \/ Create(t)
         \/ SendMessageFrom(t, {(t - 1) % NUM_CORES}, {"MSG_PROCESS_CREATE"})
         \/ SendSteps(t)
         \/ Return(t)
    \/ \E c \in Cores : Worker(c)

SpecPid == Init /\ [][NextPid]_vars

\* Load balancing: the system is started, processes are created and every
\* driver calls balance_load.
NextBalance ==
    \/ Start(Main)
    \/ StartCore(Main)
    \/ Create(Main)
    \/ \E t \in Drivers :
         \/ Balance(t)
         \/ Return(t)
    \/ \E c \in Cores :
         \/ WorkerTop(c)
         \/ ReceiveLock(c)
         \/ ExecuteProcesses(c)

SpecBalance == Init /\ [][NextBalance]_vars

\* ------------------------------------------------------------- properties
\* The cores whose process table holds pid.
Holders(pid) == {c \in Cores : FindPid(process_table[c], pid) # 0}

Pids == 0 .. MaxPid - 1

\* C1: at every instant each pid is in the process table of at most one
\* core, also while a migrate_process on the source runs concurrently with
\* the target's worker.
C1_PidInAtMostOneTable == \A p \in Pids : Cardinality(Holders(p)) <= 1

\* C2: every call of balance_load() returns; no thread blocks for ever on
\* load_balancer_mutex.  A thread that locks the mutex it already owns never
\* gets it (or leaves balance_load by an exception): no thread is ever there.
C2_BalanceLoadReturns ==
    \A t \in Drivers : ~(pc[t] = "bl_relock" /\ load_balancer_mutex = t)

\* C3: when shutdown() returns, the worker thread of every core has exited
\* and been joined: none is left running or joinable.
C3_ShutdownJoinsEveryWorker ==
    (pc[Main] = "returned" /\ ret[Main].op = "shutdown")
        => \A c \in Cores : ~Joinable(worker[c])

\* C4: the inbox of every core holds at most MESSAGE_QUEUE_SIZE messages in
\* every reachable state, and a sender that has passed the capacity check
\* and is about to push finds room, however many senders push at once.
C4_InboxBounded ==
    /\ \A c \in Cores : Len(inbox[c]) <= MESSAGE_QUEUE_SIZE
    /\ \A t \in Drivers :
         pc[t] = "send_push"
            => Len(inbox[loc[t].msg.dest_core]) < MESSAGE_QUEUE_SIZE

\* A full inbox, a sender turned away by it, and another sender on its way
\* to the same inbox.
C4_Witness ==
    \E c \in Cores, t, u \in Drivers :
        /\ Len(inbox[c]) = MESSAGE_QUEUE_SIZE
        /\ pc[t] = "returned" /\ ret[t].op = "send_message"
        /\ ret[t].args[2] = c /\ ret[t].val = 0
        /\ u # t /\ pc[u] = "send_lock" /\ loc[u].msg.dest_core = c

\* C5: a send_message that is not accepted (destination out of range, or
\* destination inbox at capacity) returns at its next step, without waiting
\* for room, and no step of the call changes an inbox, messages_sent or
\* messages_received; messages_sent grows only by one, on the sending core,
\* in the step that completes an accepted send, and grows in each such step.
C5_RejectedSendChangesNothing ==
    [][\A t \in Drivers :
         LET d == loc[t].msg.dest_core
             outOfRange == d < 0 \/ d >= NUM_CORES
             atCapacity == ~outOfRange /\ Len(inbox[d]) >= MESSAGE_QUEUE_SIZE
             dropped == /\ pc'[t] = "returned"
                        /\ ret'[t].op = "send_message"
                        /\ ret'[t].val = 0
             untouched == UNCHANGED <<inbox, messages_sent, messages_received>>
         IN  /\ (pc[t] = "send_entry" /\ pc'[t] # "send_entry" /\ outOfRange)
                    => dropped /\ untouched
             /\ (pc[t] = "send_lock" /\ pc'[t] # "send_lock" /\ atCapacity)
                    => dropped /\ untouched
             /\ ((pc[t] = "idle" /\ pc'[t] = "send_entry")
                    \/ (pc[t] = "send_entry" /\ pc'[t] = "send_lock"))
                   => untouched
             /\ (pc[t] = "send_count" /\ pc'[t] # "send_count")
                    => messages_sent'[loc[t].sender]
                          = messages_sent[loc[t].sender] + 1
             /\ \A c \in Cores :
                    messages_sent'[c] # messages_sent[c]
                        => /\ messages_sent'[c] = messages_sent[c] + 1
                           /\ \E u \in Drivers :
                                 /\ pc[u] = "send_count"
                                 /\ pc'[u] # "send_count"
                                 /\ loc[u].sender = c
      ]_vars

\* A send turned away by a full inbox after its sender core had sent before.
C5_Witness ==
    \E t \in Drivers :
        /\ pc[t] = "returned" /\ ret[t].op = "send_message" /\ ret[t].val = 0
        /\ ret[t].args[2] \in Cores
        /\ Len(inbox[ret[t].args[2]]) = MESSAGE_QUEUE_SIZE
        /\ messages_sent[ret[t].args[1]] > 0

\* C6: per-inbox FIFO.  seq numbers the accepted pushes in the order they
\* were made, so a send that completed before another began has the smaller
\* seq.  Every inbox holds its messages in rising seq; the message a worker
\* is dispatching was pushed after everything the worker dispatched before
\* and before everything still queued.
C6_InboxFifo ==
    \A c \in Cores :
        /\ \A i, j \in 1 .. Len(inbox[c]) :
              i < j => inbox[c][i].seq < inbox[c][j].seq
        /\ \A i \in 1 .. Len(inbox[c]) : last_dispatched[c] < inbox[c][i].seq
        /\ wpc[c] = "dispatch" =>
              /\ last_dispatched[c] < cur[c].seq
              /\ \A i \in 1 .. Len(inbox[c]) : cur[c].seq < inbox[c][i].seq

\* A worker that has dispatched one message holds the next and has a third
\* one queued.
C6_Witness ==
    \E c \in Cores :
        /\ last_dispatched[c] > 0
        /\ wpc[c] = "dispatch"
        /\ inbox[c] # <<>>

\* The send inside migrate_process ends without a push.
MigrateSendDropped(t) ==
    /\ pc[t] \in {"send_entry", "send_lock"}
    /\ loc[t].cont = "mp_erase"
    /\ pc'[t] = "mp_erase"

\* C7: every migrate_process(pid, target) on a core that holds pid enqueues
\* one MIGRATE message for the target (its send is never dropped, and
\* messages_sent of the source grows by one), removes the pid from the
\* source table, decrements the source's current_load and returns true.
C7_MigrateEnqueuesAndRemoves ==
    [][\A t \in Drivers :
         /\ ~MigrateSendDropped(t)
         /\ (pc[t] = "send_count" /\ loc[t].cont = "mp_erase"
                /\ pc'[t] = "mp_erase")
               => messages_sent'[loc[t].source]
                     = messages_sent[loc[t].source] + 1
         /\ (pc[t] = "mp_erase" /\ pc'[t] = "returned")
               => /\ ret'[t].val = 1
                  /\ FindPid(process_table'[loc[t].source], loc[t].pid) = 0
                  /\ current_load'[loc[t].source]
                        = current_load[loc[t].source] - 1
      ]_vars

\* C8: MultikernelSystem::migrate_process returns false and changes no
\* process table, current_load, inbox or message counter when source or
\* target is out of range or the pid is not in the source core's table.
C8_FailedMigrateChangesNothing ==
    [][\A t \in Drivers :
         LET untouched ==
                UNCHANGED <<process_table, current_load, inbox,
                            messages_sent, messages_received>>
         IN  /\ (pc[t] = "idle" /\ pc'[t] = "mp_lock") => untouched
             /\ (pc[t] \in {"idle", "mp_lock"} /\ pc'[t] = "returned"
                    /\ ret'[t].op = "migrate_process")
                   => /\ ret'[t].val = 0
                      /\ untouched
             /\ (pc[t] # "returned" /\ pc'[t] = "returned"
                    /\ ret'[t].op = "migrate_process")
                   => LET pid == ret'[t].args[1]
                          s == ret'[t].args[2]
                          g == ret'[t].args[3]
                          badCore == s < 0 \/ s >= NUM_CORES
                                       \/ g < 0 \/ g >= NUM_CORES
                      IN  (badCore \/ FindPid(process_table[s], pid) = 0)
                             => ret'[t].val = 0 /\ untouched
      ]_vars

\* A migrate_process refused for a pid that another core holds.
C8_Witness ==
    \E t \in Drivers :
        /\ pc[t] = "returned" /\ ret[t].op = "migrate_process"
        /\ ret[t].val = 0
        /\ ret[t].args[2] \in Cores /\ ret[t].args[3] \in Cores
        /\ Holders(ret[t].args[1]) # {}
        /\ ret[t].args[2] \notin Holders(ret[t].args[1])

\* C9: create_process on a system that is not running returns -1, adds no
\* PCB, changes no current_load and draws no pid; on a running system the
\* call goes on and returns a pid >= 0.
C9_CreateRefusedWhenNotRunning ==
    [][\A t \in Drivers :
         /\ (pc[t] = "idle" /\ ~system_running) => pc'[t] # "gllc_lock"
         /\ (pc[t] = "idle" /\ pc'[t] = "returned"
                /\ ret'[t].op = "create_process")
               => /\ ~system_running
                  /\ ret'[t].val = -1
                  /\ UNCHANGED <<process_table, current_load, global_pid>>
         /\ (pc[t] = "cp_create" /\ pc'[t] = "returned")
               => /\ ret'[t].op = "create_process"
                  /\ ret'[t].val >= 0
      ]_vars

\* create_process refused after a shutdown, a PCB created earlier still
\* in some table.
C9_Witness ==
    /\ pc[Main] = "returned" /\ ret[Main].op = "create_process"
    /\ ret[Main].val = -1
    /\ \E c \in Cores : worker[c] # "none" /\ process_table[c] # <<>>

\* C10: migrate_process on a system that is not running returns false.
\* Main is the only driver that starts, stops and migrates here, so
\* system_running is the same when its call returns as when it was made.
C10_MigrateRefusedWhenNotRunning ==
    (pc[Main] = "returned" /\ ret[Main].op = "migrate_process"
        /\ ~system_running)
        => ret[Main].val = 0

\* The smallest index, counted from 0, of a minimal entry of loads.
LowestMinimum(loads) ==
    (CHOOSE i \in 1 .. Len(loads) :
        /\ \A j \in 1 .. Len(loads) : loads[i] <= loads[j]
        /\ \A j \in 1 .. i - 1 : loads[j] > loads[i]) - 1

\* C11: get_least_loaded_core() returns the smallest index whose load, as
\* read during the scan, is minimal, and create_process appends the new PCB
\* to the table of exactly that core and to no other.
C11_LeastLoadedLowestIndex ==
    [][\A t \in Drivers :
         /\ (pc[t] = "gllc_scan" /\ pc'[t] = "cp_create")
               => loc'[t].target =
                     LowestMinimum(Append(loc[t].seen, current_load[loc[t].i]))
         /\ (pc[t] = "cp_create" /\ pc'[t] = "returned")
               => /\ process_table'[loc[t].target] =
                       Append(process_table[loc[t].target],
                              ProcessControlBlock(ret'[t].val, loc[t].target,
                                                  loc[t].priority))
                  /\ \A c \in Cores \ {loc[t].target} :
                        process_table'[c] = process_table[c]
      ]_vars

\* A create_process has returned a pid that was placed on a core other
\* than core 0, core 0 being the more loaded one during the scan.
C11_Witness ==
    \E t \in Drivers, c \in Cores \ {0} :
        /\ pc[t] = "returned" /\ ret[t].op = "create_process"
        /\ ret[t].val >= 0
        /\ c \in Holders(ret[t].val)
        /\ process_table[0] # <<>>


\* The NUM_CORES-th create_process since construction has just returned.
BurstDone ==
    /\ pc[Main] = "returned" /\ ret[Main].op = "create_process"
    /\ ret[Main].val = NUM_CORES - 1

TotalLoad == SumOver(current_load, Cores)
TotalSent == SumOver(messages_sent, Cores)
TotalReceived == SumOver(messages_received, Cores)
TotalPCBs == SumOver([c \in Cores |-> Len(process_table[c])], Cores)

\* C12 as stated: on a freshly started system with the workers running,
\* after NUM_CORES consecutive create_process calls every core owns exactly
\* one PCB, the total load is NUM_CORES and no message has been sent.
C12_EachCoreOwnsOne ==
    BurstDone => /\ \A c \in Cores : Len(process_table[c]) = 1
                 /\ TotalLoad = NUM_CORES
                 /\ TotalSent = 0

\* C12 amended: after the NUM_CORES consecutive create_process calls no
\* message has been sent, and when no scheduler pass has terminated one of
\* the PCBs by then, every core owns exactly one PCB and the total load is
\* NUM_CORES.
C12_EachCoreOwnsOneUnlessTerminated ==
    BurstDone => /\ TotalSent = 0
                 /\ TotalPCBs = NUM_CORES =>
                       /\ \A c \in Cores : Len(process_table[c]) = 1
                       /\ TotalLoad = NUM_CORES

\* The burst is over, every PCB is still there and the workers have made
\* scheduler passes over them.
C12_Witness ==
    /\ BurstDone
    /\ TotalPCBs = NUM_CORES
    /\ \E c \in Cores : process_table[c][1].cpu_time > 0


\* Driver t takes a step of a create_process call.
CreateStep(t) ==
    \/ /\ pc[t] = "idle"
       /\ \/ pc'[t] = "gllc_lock"
          \/ pc'[t] = "returned" /\ ret'[t].op = "create_process"
    \/ /\ pc[t] \in {"gllc_lock", "gllc_scan", "cp_create"}
       /\ (pc'[t] # pc[t] \/ loc'[t] # loc[t])

\* C13: create_process places directly.  No step of it changes an inbox,
\* messages_sent or messages_received; the step that creates adds one READY
\* PCB at the back of one core's table and raises that core's current_load
\* by one, all other tables and loads unchanged; no other step of it
\* changes a table or a load.
C13_CreateIsDirectPlacement ==
    [][\A t \in Drivers :
         CreateStep(t) =>
           /\ UNCHANGED <<inbox, messages_sent, messages_received>>
           /\ IF pc[t] = "cp_create"
              THEN \E c \in Cores :
                     /\ Len(process_table'[c]) = Len(process_table[c]) + 1
                     /\ SubSeq(process_table'[c], 1, Len(process_table[c]))
                           = process_table[c]
                     /\ process_table'[c][Len(process_table'[c])].state
                           = "PROCESS_READY"
                     /\ process_table'[c][Len(process_table'[c])].pid
                           = ret'[t].val
                     /\ current_load'[c] = current_load[c] + 1
                     /\ \A d \in Cores \ {c} :
                           /\ process_table'[d] = process_table[d]
                           /\ current_load'[d] = current_load[d]
              ELSE UNCHANGED <<process_table, current_load>>
      ]_vars

\* A create_process has placed a process while a message sent earlier was
\* waiting in an inbox.
C13_Witness ==
    /\ pc[Main] = "returned" /\ ret[Main].op = "create_process"
    /\ ret[Main].val >= 0
    /\ Holders(ret[Main].val) # {}
    /\ TotalSent > 0
    /\ \E c \in Cores : inbox[c] # <<>>


Threads == Drivers \cup {WorkerId(c) : c \in Cores}

\* The number of mutexes thread id owns.
MutexesHeld(id) ==
    Cardinality({c \in Cores : inbox_mutex[c] = id})
    + Cardinality({c \in Cores : process_mutex[c] = id})
    + (IF load_balancer_mutex = id THEN 1 ELSE 0)

\* C14: no thread ever holds two of the system's mutexes (an inbox_mutex, a
\* process_mutex, load_balancer_mutex) at the same time.
C14_NoThreadHoldsTwoMutexes == \A id \in Threads : MutexesHeld(id) <= 1


C16_LoadIsTableSize ==
    \A c \in Cores :
        /\ current_load[c] >= 0
        /\ process_mutex[c] = 0 => current_load[c] = Len(process_table[c])

\* A core that received a migrated process has had it terminated by a
\* TERMINATE message, the source of the migration holding another PCB.
C16_Witness ==
    \E c \in Cores : \E d \in Cores \ {c} :
        /\ messages_received[c] >= 2
        /\ process_table[c] = <<>>
        /\ process_table[d] # <<>>
        /\ process_table[d][1].cpu_time > 0
        /\ messages_sent[d] > 0
        /\ wpc[c] = "drain" /\ last_dispatched[c] > 0
        /\ global_pid = MaxPid


\* C17: at all times the messages_received of all cores add up to at most
\* the messages_sent of all cores: no message is counted as received before
\* it has been counted as sent.
C17_ReceivedAtMostSent == TotalReceived <= TotalSent

\* Every message counted as sent has been received, a sender has pushed
\* one more that it has not counted yet, and the destination's worker is
\* about to look into its inbox.
C17_Witness ==
    \E t \in Drivers :
        /\ pc[t] = "send_count"
        /\ wpc[loc[t].msg.dest_core] = "drain"
        /\ worker[loc[t].msg.dest_core] = "running"
        /\ TotalSent > 0
        /\ TotalReceived = TotalSent


\* The messages accepted into the inbox of core c so far.
Accepted(c) == messages_received[c] + Len(inbox[c])

\* C18: a send_heartbeat_messages() call on a running system whose inboxes
\* are not full raises messages_sent of core 0 by exactly NUM_CORES - 1;
\* with nothing else sending, between calls every core but core 0 has been
\* sent one HEARTBEAT for each call, which is its messages_received once
\* its inbox is drained, and core 0 none; and dispatching a HEARTBEAT
\* changes no process table and no current_load.
C18_HeartbeatCounts ==
    /\ [][\A t \in Drivers :
            (pc[t] = "hb_send" /\ pc'[t] = "returned")
               => messages_sent'[0] = loc[t].sent_before + NUM_CORES - 1
        ]_vars
    /\ [](pc[Main] \in {"idle", "returned"}
            => /\ Accepted(0) = 0
               /\ \A c \in Cores \ {0} :
                     (NUM_CORES - 1) * Accepted(c) = messages_sent[0])
    /\ [][\A c \in Cores :
            (wpc[c] = "dispatch" /\ wpc'[c] # "dispatch"
                /\ cur[c].type = "MSG_HEARTBEAT")
               => UNCHANGED <<process_table, current_load, global_pid>>
        ]_vars

\* send_heartbeat_messages has returned a second time, every inbox is
\* drained, every core but core 0 has received two heartbeats and a process
\* created before is still in a table.
C18_Witness ==
    /\ pc[Main] = "returned" /\ ret[Main].op = "send_heartbeat_messages"
    /\ system_running
    /\ messages_sent[0] = 2 * (NUM_CORES - 1)
    /\ \A c \in Cores : inbox[c] = <<>> /\ wpc[c] # "dispatch"
    /\ \A c \in Cores \ {0} : messages_received[c] = 2
    /\ \E c \in Cores : process_table[c] # <<>>


\* C19: two-pass start.  all_cores is set on every core before the worker
\* of any core is started: no core is running while a peer still lacks the
\* routing table.
C19_RoutingTableBeforeWorkers ==
    \A c \in Cores :
        (running[c] \/ worker[c] = "running") => \A d \in Cores : all_cores[d]


\* C20: every successful receive_message records a latency sample: when a
\* worker has dequeued a message, avg_message_latency_us of its core holds
\* the sample of that message.
C20_ReceiveRecordsLatency ==
    \A c \in Cores :
        wpc[c] = "dispatch"
           => avg_message_latency_us[c] = LatencySample(cur[c])


\* C21: no TERMINATED PCB survives the scheduler pass that terminated it:
\* whenever the process_mutex of a core is free, every PCB in its table is
\* READY or RUNNING, so a TERMINATED PCB is never there to be run again or
\* to be made READY or RUNNING.
C21_NoTerminatedPcbInTable ==
    \A c \in Cores :
        process_mutex[c] = 0
           => \A i \in 1 .. Len(process_table[c]) :
                 process_table[c][i].state \in {"PROCESS_READY", "PROCESS_RUNNING"}

\* Two processes were created and no message was sent; a scheduler pass
\* has run one of them, terminated it and swept it from its core's table.
C21_Witness ==
    /\ global_pid = 2
    /\ seq = 0
    /\ TotalPCBs = 1
    /\ \E c \in Cores :
          /\ processes_executed[c] = 1
          /\ process_mutex[c] = 0
          /\ process_table[c] = <<>>


\* C22: every create_process, called through the coordinator or by the
\* CREATE handler, returns and gives its PCB the value of the pid counter
\* and raises the counter by one, nothing else changes the counter, and every
\* pid in a table or just returned is below the counter: a pid differs from
\* every pid returned before and is greater than those of earlier calls.
C22_PidsUniqueAndIncreasing ==
    /\ [][/\ global_pid' # global_pid =>
              /\ global_pid' = global_pid + 1
              /\ \E c \in Cores :
                    /\ Len(process_table'[c]) = Len(process_table[c]) + 1
                    /\ process_table'[c][Len(process_table'[c])].pid = global_pid
          /\ \A t \in Drivers :
                (pc[t] = "cp_create" /\ pc'[t] = "returned")
                   => ret'[t].val = global_pid /\ global_pid' = global_pid + 1
          /\ \A c \in Cores :
                (wpc[c] = "dispatch" /\ wpc'[c] # "dispatch"
                    /\ cur[c].type = "MSG_PROCESS_CREATE")
                   => global_pid' = global_pid + 1
        ]_vars
    /\ [](/\ \A c \in Cores : \A i \in 1 .. Len(process_table[c]) :
                process_table[c][i].pid < global_pid
          /\ \A t \in Drivers :
                (pc[t] = "returned" /\ ret[t].op = "create_process")
                   => ret[t].val < global_pid)

\* A driver's create_process has returned pid 1 after a worker had created
\* pid 0 for a CREATE message.
C22_Witness ==
    \E t \in Drivers :
        /\ pc[t] = "returned" /\ ret[t].op = "create_process"
        /\ ret[t].val = 1
        /\ global_pid = 2
        /\ \E c \in Cores : last_dispatched[c] > 0 /\ wpc[c] # "dispatch"


\* C23: migrate_process writes the priority the PCB has on the source core
\* into the MIGRATE message together with its pid and the target core, and
\* the MIGRATE handler of the core that dispatches a message carrying the
\* text of priority p appends a PCB with the message's pid, priority p,
\* core_id of the dispatching core, state READY, for every p in 0 .. 10.
C23_MigrationRoundTrip ==
    [][/\ \A t \in Drivers :
            (pc[t] = "mp_lock" /\ pc'[t] = "send_entry")
               => LET s   == loc[t].source
                      pcb == process_table[s][FindPid(process_table[s], loc[t].pid)]
                  IN  /\ pcb.priority \in PcbPriorities
                      /\ loc'[t].msg.process_id = pcb.pid
                      /\ loc'[t].msg.dest_core = loc[t].target
                      /\ loc'[t].msg.data = snprintf_priority(pcb.priority)
       /\ \A c \in Cores :
            (wpc[c] = "dispatch" /\ wpc'[c] # "dispatch"
                /\ cur[c].type = "MSG_PROCESS_MIGRATE")
               => /\ cur[c].dest_core = c
                  /\ \E p \in PcbPriorities :
                        /\ cur[c].data = snprintf_priority(p)
                        /\ process_table'[c] =
                              Append(process_table[c],
                                     [pid |-> cur[c].process_id, core_id |-> c,
                                      priority |-> p, state |-> "PROCESS_READY",
                                      cpu_time |-> 0])
      ]_vars

\* The only process created, of priority 10, is in the table of a core whose
\* worker has dispatched a MIGRATE message.
C23_Witness ==
    /\ global_pid = 1 /\ TotalPCBs = 1
    /\ \E c \in Cores :
          /\ last_dispatched[c] > 0 /\ wpc[c] # "dispatch"
          /\ process_table[c] # <<>>
          /\ process_table[c][1].priority = 10
          /\ process_table[c][1].pid = 0
          /\ process_table[c][1].core_id = c


\* C24: when a worker dispatches TERMINATE(pid), which is a call of
\* terminate_process(pid), and the pid is in its table, the PCBs of that pid
\* and no others leave the table and current_load drops by one; when the
\* pid is not there, table and current_load stay as they were; in both cases
\* the other cores' tables and loads stay and the worker goes on running.
C24_TerminateRemovesExactlyThePid ==
    [][\A c \in Cores :
         (wpc[c] = "dispatch" /\ wpc'[c] # "dispatch"
             /\ cur[c].type = "MSG_PROCESS_TERMINATE")
            => LET pid  == cur[c].process_id
                   here == \E i \in 1 .. Len(process_table[c]) :
                              process_table[c][i].pid = pid
               IN  /\ here =>
                        /\ process_table'[c] =
                              SelectSeq(process_table[c], LAMBDA x : x.pid # pid)
                        /\ Len(process_table'[c]) = Len(process_table[c]) - 1
                        /\ current_load'[c] = current_load[c] - 1
                   /\ ~here =>
                        /\ process_table'[c] = process_table[c]
                        /\ current_load'[c] = current_load[c]
                   /\ \A d \in Cores \ {c} :
                        /\ process_table'[d] = process_table[d]
                        /\ current_load'[d] = current_load[d]
                   /\ running'[c] = running[c]
                   /\ worker'[c] = "running"
                   /\ wpc'[c] = "drain"
      ]_vars

\* The first message accepted, a TERMINATE sent through core 0, has been
\* dispatched by its receiver; of the two processes created, one is left.
C24_Witness ==
    /\ pc[Main] = "returned" /\ ret[Main].op = "send_message"
    /\ ret[Main].val = 1
    /\ seq = 1
    /\ global_pid = 2 /\ TotalPCBs = 1
    /\ \E c \in Cores :
          /\ ret[Main].args = <<0, c>>
          /\ last_dispatched[c] = 1 /\ wpc[c] = "drain"
          /\ current_load[c] = Len(process_table[c])


\* C25: when a worker dequeues a RESOURCE_REQUEST, RESOURCE_RELEASE,
\* SYNC_BARRIER or HEARTBEAT message, of the counters only its own
\* messages_received (and latency gauge) may change, and when it then
\* dispatches the message nothing changes at all: every process table,
\* current_load and running flag, the pid counter, every inbox and every
\* messages_sent stay as they were, and the worker goes back to its inbox.
C25_UnhandledTypesChangeNothing ==
    [][\A c \in Cores :
         /\ (wpc[c] = "recv_pop" /\ wpc'[c] = "dispatch"
                /\ cur'[c].type \in QuietTypes)
              => /\ messages_received'[c] = messages_received[c] + 1
                 /\ \A d \in Cores \ {c} :
                       /\ messages_received'[d] = messages_received[d]
                       /\ avg_message_latency_us'[d] = avg_message_latency_us[d]
                       /\ inbox'[d] = inbox[d]
                 /\ UNCHANGED <<process_table, current_load, running, global_pid,
                                messages_sent, seq, worker>>
         /\ (wpc[c] = "dispatch" /\ wpc'[c] # "dispatch"
                /\ cur[c].type \in QuietTypes)
              => /\ UNCHANGED <<process_table, current_load, running, global_pid,
                                inbox, seq, statVars, worker>>
                 /\ worker[c] = "running"
                 /\ wpc'[c] = "drain"
      ]_vars

\* A worker whose core holds a process has dispatched a message of one of
\* these types, the second one accepted, and is back at its inbox.
C25_Witness ==
    \E c \in Cores :
        /\ wpc[c] = "drain" /\ last_dispatched[c] = 2
        /\ messages_received[c] >= 1
        /\ process_table[c] # <<>> /\ current_load[c] = Len(process_table[c])
        /\ running[c] /\ worker[c] = "running"


\* C26 as stated: broadcast_message(msg) on core c hands send_message one
\* copy of msg for each index i # c, with dest_core = i, and none for c;
\* called when no inbox is full, it has raised c's messages_sent by
\* NUM_CORES - 1 when it returns, and every other inbox has been sent one
\* message.
C26_BroadcastCountsWheneverNotFull ==
    /\ [][\A t \in Drivers :
            /\ (pc[t] = "bc_send" /\ pc'[t] = "send_entry")
                 => /\ loc[t].i # loc[t].source
                    /\ loc'[t].msg = [loc[t].arg EXCEPT !.dest_core = loc[t].i]
                    /\ loc'[t].sender = loc[t].source
                    /\ loc'[t].i = loc[t].i + 1
            /\ (pc[t] = "bc_send" /\ pc'[t] = "bc_send" /\ loc'[t] # loc[t])
                 => /\ loc[t].i = loc[t].source
                    /\ loc'[t].i = loc[t].i + 1
                    /\ UNCHANGED <<inbox, messages_sent, seq>>
            /\ (pc[t] = "bc_send" /\ pc'[t] = "returned")
                 => /\ loc[t].i = NUM_CORES
                    /\ messages_sent'[loc[t].source] =
                          loc[t].sent_before + NUM_CORES - 1
        ]_vars
    /\ [](pc[Main] \in {"idle", "returned"}
            => \A d \in Cores :
                  (NUM_CORES - 1) * Accepted(d) =
                     SumOver([c \in Cores |->
                                IF c = d THEN 0 ELSE messages_sent[c]], Cores))

\* C26: broadcast_message(msg) on core c hands send_message one copy of msg
\* for each index i # c, in increasing order, with dest_core = i and the
\* other fields of msg, and none for c; called on a core that has been
\* given the routing table, when no inbox is full, it has raised c's
\* messages_sent by NUM_CORES - 1 when it returns, and called on a core
\* without the routing table it has raised it by nothing; with nothing else
\* sending every core has been sent one message for each counted copy of a
\* broadcast made on another core.
C26_BroadcastOneCopyToEachOther ==
    /\ [][\A t \in Drivers :
            /\ (pc[t] = "bc_send" /\ pc'[t] = "send_entry")
                 => /\ loc[t].i # loc[t].source
                    /\ loc'[t].msg = [loc[t].arg EXCEPT !.dest_core = loc[t].i]
                    /\ loc'[t].sender = loc[t].source
                    /\ loc'[t].i = loc[t].i + 1
            /\ (pc[t] = "bc_send" /\ pc'[t] = "bc_send" /\ loc'[t] # loc[t])
                 => /\ loc[t].i = loc[t].source
                    /\ loc'[t].i = loc[t].i + 1
                    /\ UNCHANGED <<inbox, messages_sent, seq>>
            /\ (pc[t] = "bc_send" /\ pc'[t] = "returned")
                 => /\ loc[t].i = NUM_CORES
                    /\ messages_sent'[loc[t].source] =
                          loc[t].sent_before
                            + (IF all_cores[loc[t].source]
                               THEN NUM_CORES - 1 ELSE 0)
        ]_vars
    /\ [](pc[Main] \in {"idle", "returned"}
            => \A d \in Cores :
                  (NUM_CORES - 1) * Accepted(d) =
                     SumOver([c \in Cores |->
                                IF c = d THEN 0 ELSE messages_sent[c]], Cores))

\* A second broadcast on the same core has returned, every inbox is
\* drained, every other core has received two messages and the broadcasting
\* core none.
C26_Witness ==
    /\ pc[Main] = "returned" /\ ret[Main].op = "broadcast_message"
    /\ \A c \in Cores : inbox[c] = <<>> /\ wpc[c] # "dispatch"
    /\ \E c \in Cores :
          /\ ret[Main].args = <<c>>
          /\ messages_sent[c] = 2 * (NUM_CORES - 1)
          /\ messages_received[c] = 0
          /\ \A d \in Cores \ {c} : messages_received[d] = 2


C28_SmpPlacementBalanced ==
    /\ [][/\ \A t \in Drivers :
              (smp_pc[t] = "create" /\ smp_pc'[t] = "idle")
                 => LET n == core_loads(global_process_table)
                        least == CHOOSE c \in Cores :
                                    /\ \A d \in Cores : n[c] <= n[d]
                                    /\ \A d \in 0 .. c - 1 : n[d] > n[c]
                    IN  /\ global_lock = t
                        /\ global_process_table' =
                              Append(global_process_table,
                                     [pid |-> next_pid,
                                      priority |-> smp_loc[t].priority,
                                      assigned_core |-> least])
                        /\ smp_ret'[t] = next_pid
          /\ global_process_table' # global_process_table
                 => \E t \in Drivers : smp_pc[t] = "create" /\ smp_pc'[t] = "idle"
        ]_vars
    /\ [](/\ \A c \in Cores : \A d \in Cores :
                core_loads(global_process_table)[c]
                   <= core_loads(global_process_table)[d] + 1
          /\ Len(global_process_table) = next_pid
          /\ \A i \in 1 .. Len(global_process_table) :
                global_process_table[i].pid = i - 1)

\* Three processes have been created by two threads while the core
\* threads ticked, and the first core holds one process more than another.
C28_Witness ==
    /\ global_lock = 0 /\ next_pid = 3
    /\ \A t \in Drivers : smp_ret[t] >= 0
    /\ total_operations > 0
    /\ core_loads(global_process_table)[0] = 2
    /\ \E c \in Cores : core_loads(global_process_table)[c] = 1


\* C29: the number of live processes, the sum of the sizes of the cores'
\* process tables, is never above MAX_PROCESSES.
C29_LiveProcessesAtMostMax == TotalPCBs <= MAX_PROCESSES


\* C30: with the workers running and the termination draw fair, every
\* process in a table is eventually terminated and removed, and once no
\* more processes are created the current_load of every core reaches 0 and
\* stays there; and a scheduler pass of a core does not increase its
\* current_load and changes no other core's.
C30_StochasticDrainage ==
    /\ \A p \in Pids : (Holders(p) # {}) ~> (Holders(p) = {})
    /\ <>[](\A c \in Cores : current_load[c] = 0)
    /\ [][\A c \in Cores :
            (wpc[c] = "exec" /\ wpc'[c] # "exec")
               => /\ current_load'[c] <= current_load[c]
                  /\ \A d \in Cores \ {c} : current_load'[d] = current_load[d]
        ]_vars

\* Every process that can be created has been, and every core's table is
\* empty again with current_load 0.
C30_Witness ==
    /\ global_pid = MaxPid
    /\ \A c \in Cores :
          /\ process_table[c] = <<>> /\ current_load[c] = 0
          /\ worker[c] = "running"


\* C31: a worker that has dispatched a SHUTDOWN message, so that its
\* running flag is cleared, dispatches no further message and runs no
\* further scheduler pass.
C31_ShutdownEndsWorkerAtOnce ==
    [][\A c \in Cores :
         (worker[c] = "running" /\ ~running[c])
            => /\ ~(wpc[c] = "dispatch" /\ wpc'[c] # "dispatch")
               /\ ~(wpc[c] = "exec" /\ wpc'[c] # "exec")
      ]_vars


\* The pid is in the table of a core other than s, or carried by a MIGRATE
\* message that is queued in an inbox or that a worker has dequeued and not
\* yet dispatched.
PresentOutside(p, s) ==
    \/ \E c \in Cores \ {s} : FindPid(process_table[c], p) # 0
    \/ \E c \in Cores : \E i \in 1 .. Len(inbox[c]) :
          inbox[c][i].type = "MSG_PROCESS_MIGRATE" /\ inbox[c][i].process_id = p
    \/ \E c \in Cores :
          /\ wpc[c] = "dispatch"
          /\ cur[c].type = "MSG_PROCESS_MIGRATE" /\ cur[c].process_id = p

\* C32: no process is lost by migration: when the send_message call of a
\* migrate_process returns without having pushed the MIGRATE message, so
\* that the erase from the source table is all that is left of the call,
\* the pid is in another table or carried by a MIGRATE message.
C32_NoProcessLostByMigration ==
    [][\A t \in Drivers :
         MigrateSendDropped(t) => PresentOutside(loc[t].pid, loc[t].source)'
      ]_vars


\* The owner of the per-core mutex thread id is about to lock, 0 when id is
\* at no lock or the mutex is free.  Drivers: send_message locks the
\* destination's inbox_mutex, CoreKernel::migrate_process and create_process
\* lock process_mutex.  Workers: receive_message locks inbox_mutex, the
\* process handlers and execute_processes lock process_mutex.
WaitsFor(id) ==
    IF id \in Drivers
    THEN CASE pc[id] = "send_lock" -> inbox_mutex[loc[id].msg.dest_core]
           [] pc[id] = "mp_lock" -> process_mutex[loc[id].source]
           [] pc[id] = "cp_create" -> process_mutex[loc[id].target]
           [] OTHER -> 0
    ELSE LET c == -id - 1 IN
         IF worker[c] # "running" THEN 0
         ELSE CASE wpc[c] = "drain" -> inbox_mutex[c]
                [] wpc[c] = "exec" -> process_mutex[c]
                [] wpc[c] = "dispatch"
                   /\ cur[c].type \in {"MSG_PROCESS_CREATE", "MSG_PROCESS_MIGRATE",
                                        "MSG_PROCESS_TERMINATE"} -> process_mutex[c]
                [] OTHER -> 0

BalanceLoadStep(t) ==
    /\ <<pc[t], loc[t], ret[t]>>' # <<pc[t], loc[t], ret[t]>>
    /\ \/ pc[t] \in {"bl_lock", "bl_sum", "bl_scan", "bl_relock"}
       \/ pc'[t] = "bl_lock"
       \/ /\ pc'[t] = "returned"
          /\ ret'[t].op \in {"balance_load", "balance_load_threw"}

TerminatingDraws(pcb) ==
    {d \in Draws : Terminated(RunPass(<<pcb>>, <<d>>)[1])}

\* The PCBs in the process tables.
TablePCBs ==
    UNION {{process_table[c][i] : i \in 1 .. Len(process_table[c])} :
           c \in Cores}


\* C36: the chance that a scheduled PCB is terminated in a pass depends
\* only on its cpu_time after the quantum has been added: of the 100 draws
\* 80 terminate it when that cpu_time is above 600 ms, 50 when above 300 ms,
\* 30 when above 150 ms and 20 otherwise; the number never decreases as
\* cpu_time grows.
C36_TerminationChanceByAge ==
    \A pcb \in TablePCBs :
       Scheduled(pcb) =>
          LET cpu_ms == pcb.cpu_time + QUANTUM_MS
              n == Cardinality(TerminatingDraws(pcb))
          IN  /\ n = (IF cpu_ms > 600 THEN 80
                      ELSE IF cpu_ms > 300 THEN 50
                      ELSE IF cpu_ms > 150 THEN 30
                      ELSE 20)
              /\ \A other \in TablePCBs :
                    (Scheduled(other) /\ other.cpu_time <= pcb.cpu_time)
                       => Cardinality(TerminatingDraws(other)) <= n

\* Two PCBs that have been through passes are in the tables, one whose
\* next pass takes it past 600 ms and one that stays within 150 ms: the
\* oldest and the youngest class of the claim are compared.
C36_Witness ==
    \E old, young \in TablePCBs :
       /\ old.state = "PROCESS_RUNNING" /\ young.state = "PROCESS_RUNNING"
       /\ old.cpu_time + QUANTUM_MS > 600
       /\ young.cpu_time + QUANTUM_MS <= 150


\* The messages queued in all inboxes.
TotalQueued == SumOver([c \in Cores |-> Len(inbox[c])], Cores)

\* C34: message accounting: whenever no inbox_mutex is held, the messages
\* counted as sent system-wide less those counted as received are the
\* messages queued in the inboxes; so once every inbox is empty, every
\* message counted as sent has been counted as received (a delivery rate
\* of 100%), however many sends were rejected.
C34_SentLessReceivedIsQueued ==
    (\A c \in Cores : inbox_mutex[c] = 0)
       => /\ TotalSent - TotalReceived = TotalQueued
          /\ (\A c \in Cores : inbox[c] = <<>>)
                => TotalReceived * 100 = TotalSent * 100

\* No inbox_mutex is held, every inbox is empty, messages have been sent
\* and received, and a driver has just had a send turned away.
C34_Witness ==
    /\ \A c \in Cores : inbox_mutex[c] = 0 /\ inbox[c] = <<>>
    /\ TotalSent > 1
    /\ \E t \in Drivers :
          /\ pc[t] = "returned" /\ ret[t].op = "send_message"
          /\ ret[t].val = 0 /\ ret[t].args[2] \in Cores


EnteredBarrier(c) == sim_pc[c] \notin {"unborn", "boot_delay"}

\* Core c has returned from enter_barrier.
PassedBarrier(c) ==
    sim_pc[c] \in {"passed", "election_vote", "election_winner", "loop",
                   "receive", "done"}

\* C38: no core passes the barrier, that is returns from enter_barrier,
\* until every core has entered enter_barrier, in either build and also
\* when main shuts the cores down while some are at the barrier.
C38_NoCorePassesBarrierEarly ==
    \A c \in SimCores :
       PassedBarrier(c) => \A d \in SimCores : EnteredBarrier(d)

\* A worker has passed the barrier while another still waits for its GO
\* and the coordinator is sending the GO messages.
C38_Witness ==
    /\ sim_pc[0] = "coordinator_go"
    /\ \E c, d \in SimCores \ {0} :
          /\ PassedBarrier(c)
          /\ sim_pc[d] = "worker_wait"


\* C39: the highest id wins the election: once a core has started an
\* election, eventually every core's current_leader is NumSimCores - 1,
\* and no two cores ever hold different non-negative leader values.
C39_HighestIdBecomesLeader ==
    /\ (\E c \in SimCores : sim_pc[c] = "election_vote")
          ~> (\A c \in SimCores : current_leader[c] = NumSimCores - 1)
    /\ [](\A c, d \in SimCores :
             (current_leader[c] >= 0 /\ current_leader[d] >= 0)
                => current_leader[c] = current_leader[d])


\* C40: once main has set running = false on every core and woken the
\* inboxes, every core thread ends and main's joins return, also when a
\* core is still in enter_barrier as the shutdown begins.
C40_ShutdownEndsEveryCore ==
    (main_pc = "join")
       ~> (main_pc = "done" /\ \A c \in SimCores : sim_pc[c] = "done")

=========================================================================
